---- MODULE Spec2Model ----
(***************************************************************************)
(* Breakfast Klub ledger: the slip-grade leg matcher and commit gate       *)
(* (src/app/api/slips/grade/route.ts), the bets page and slip scanner      *)
(* writes, the text provider router (src/lib/ai/router.ts), and the slip   *)
(* scan, league resolve, league register, league list and assistant        *)
(* endpoints (src/app/api).                                                *)
(*                                                                         *)
(* Texts are sequences of one-character strings, so that norm, tokenSet    *)
(* and trim act on characters as the JavaScript does.  A null or absent    *)
(* text field that the code coalesces with `|| ""` or `?? ""` is the       *)
(* empty sequence.  Scores are exact rationals <<num, den>>; confidences   *)
(* are hundredths (0.75 is 75).                                            *)
(***************************************************************************)
EXTENDS Integers, Sequences, FiniteSets, TLC

(***************************************************************************)
(* Characters and strings                                                  *)
(***************************************************************************)
Uppers == <<"A","B","C","D","E","F","G","H","I","J","K","L","M",
            "N","O","P","Q","R","S","T","U","V","W","X","Y","Z">>
Lowers == <<"a","b","c","d","e","f","g","h","i","j","k","l","m",
            "n","o","p","q","r","s","t","u","v","w","x","y","z">>
Digits == {"0","1","2","3","4","5","6","7","8","9"}

Range(f) == {f[i] : i \in DOMAIN f}

UpperSet == Range(Uppers)

LowerOf == [c \in UpperSet |-> Lowers[CHOOSE i \in DOMAIN Uppers : Uppers[i] = c]]

LowerChar(c) == IF c \in UpperSet THEN LowerOf[c] ELSE c

\* String.prototype.toLowerCase
toLowerCase(s) == [i \in 1..Len(s) |-> LowerChar(s[i])]

\* [a-z0-9]
Alnum == Range(Lowers) \cup Digits

IsAlnum(c) == c \in Alnum

RECURSIVE dropNonAlnum(_)
dropNonAlnum(s) ==
  IF s = <<>> THEN <<>>
  ELSE IF IsAlnum(Head(s)) THEN s
  ELSE dropNonAlnum(Tail(s))

\* .replace(/[^a-z0-9]+/g, " "): every maximal run of other characters
\* becomes one space
RECURSIVE replaceNonAlnum(_)
replaceNonAlnum(s) ==
  IF s = <<>> THEN <<>>
  ELSE IF IsAlnum(Head(s)) THEN <<Head(s)>> \o replaceNonAlnum(Tail(s))
  ELSE <<" ">> \o replaceNonAlnum(dropNonAlnum(Tail(s)))

RECURSIVE trimStart(_)
trimStart(s) ==
  IF s # <<>> /\ Head(s) = " " THEN trimStart(Tail(s)) ELSE s

RECURSIVE trimEnd(_)
trimEnd(s) ==
  IF s # <<>> /\ s[Len(s)] = " " THEN trimEnd(SubSeq(s, 1, Len(s) - 1)) ELSE s

\* String.prototype.trim (the only whitespace of the model's texts is " ")
trim(s) == trimEnd(trimStart(s))

\* String.prototype.split(" "): the pieces between single spaces
RECURSIVE splitFrom(_, _)
splitFrom(s, cur) ==
  IF s = <<>> THEN <<cur>>
  ELSE IF Head(s) = " " THEN <<cur>> \o splitFrom(Tail(s), <<>>)
  ELSE splitFrom(Tail(s), Append(cur, Head(s)))

split(s) == splitFrom(s, <<>>)

\* String.prototype.includes
includes(s, sub) ==
  \E i \in 1..(Len(s) - Len(sub) + 1) : SubSeq(s, i, i + Len(sub) - 1) = sub

\* a || b on strings: the first one that is not empty
OrElse(a, b) == IF a # <<>> THEN a ELSE b

\* `${a} ${b} ${c} ${d}`
Join4(a, b, c, d) == a \o <<" ">> \o b \o <<" ">> \o c \o <<" ">> \o d

(***************************************************************************)
(* Leg matcher: norm, tokenSet, overlapScore                               *)
(***************************************************************************)
norm(s) == trim(replaceNonAlnum(toLowerCase(s)))

MinTokenLen == 2

tokenSet(s) == {t \in Range(split(norm(s))) : Len(t) >= MinTokenLen}

Max(a, b) == IF a >= b THEN a ELSE b

\* hit / Math.max(A.size, B.size) as the rational <<hit, max>>; 0 is <<0, 1>>
hitRatio(A, B) ==
  IF A = {} \/ B = {} THEN <<0, 1>>
  ELSE <<Cardinality(A \cap B), Max(Cardinality(A), Cardinality(B))>>

\* mutant: the hits are divided by the size of the first set
overlapScore_overFirst(a, b) ==
  IF tokenSet(a) = {} \/ tokenSet(b) = {} THEN <<0, 1>>
  ELSE <<Cardinality(tokenSet(a) \cap tokenSet(b)), Cardinality(tokenSet(a))>>

overlapScore(a, b) == hitRatio(tokenSet(a), tokenSet(b))

\* rational comparisons (denominators are positive)
RatLess(x, y) == x[1] * y[2] < y[1] * x[2]
RatEq(x, y) == x[1] * y[2] = y[1] * x[2]

(***************************************************************************)
(* Status and result words                                                 *)
(***************************************************************************)
Results == {"OPEN", "WIN", "LOSS", "PUSH", "VOID", "CASHOUT"}
Settled == {"WIN", "LOSS", "PUSH", "VOID", "CASHOUT"}

\* String(v ?? "").toUpperCase() on the words a provider may answer with
UpperWord(v) ==
  CASE v = "final" -> "FINAL"
    [] v = "open" -> "OPEN"
    [] v = "win" -> "WIN"
    [] v = "loss" -> "LOSS"
    [] v = "push" -> "PUSH"
    [] v = "void" -> "VOID"
    [] v = "cashout" -> "CASHOUT"
    [] OTHER -> v

normalizeStatus(v) == IF UpperWord(v) = "FINAL" THEN "FINAL" ELSE "OPEN"

normalizeResult(v) == IF UpperWord(v) \in Settled THEN UpperWord(v) ELSE "OPEN"

\* the null of a nullable text column (never equal to a text of characters)
NULL == <<"null">>

\* x ?? y
Coalesce(x, y) == IF x # NULL THEN x ELSE y

(***************************************************************************)
(* buildProposals                                                          *)
(***************************************************************************)
WeightCombined == 65
WeightOpponent == 20
WeightMarket == 15
MinLegScore == 35
SlipRefConfidence == 99
FuzzyTicketConfidence == 70

\* s1 * 0.65 + s2 * 0.2 + s3 * 0.15 as a rational
blend(s1, s2, s3) ==
  << WeightCombined * s1[1] * s2[2] * s3[2]
       + WeightOpponent * s2[1] * s1[2] * s3[2]
       + WeightMarket * s3[1] * s1[2] * s2[2],
     100 * s1[2] * s2[2] * s3[2] >>

legScore(leg, b) ==
  blend(overlapScore(Join4(leg.play, leg.selection, leg.market, leg.opponent),
                     Join4(b.play, b.market, b.selection, b.opponent)),
        overlapScore(leg.opponent, b.opponent),
        overlapScore(leg.market, b.market))

NoBest == [bet |-> 0, score |-> <<0, 1>>]

\* mutant: a later row with an equal score replaces the best one
betterMatch_lastWins(best, score) == best = NoBest \/ ~RatLess(score, best.score)

\* if (!best || score > best.score) best = { bet: b, score }
betterMatch(best, score) == best = NoBest \/ RatLess(best.score, score)

\* one pass of the inner loop: row i with its score against the best so far
bestAfter(best, i, score) ==
  IF betterMatch(best, score) THEN [bet |-> i, score |-> score] ELSE best

\* the inner loop over the candidates: best after rows i..Len(candidates)
RECURSIVE bestFrom(_, _, _, _)
bestFrom(leg, candidates, i, best) ==
  IF i > Len(candidates) THEN best
  ELSE bestFrom(leg, candidates, i + 1,
                bestAfter(best, i, legScore(leg, candidates[i])))

bestMatch(leg, candidates) == bestFrom(leg, candidates, 1, NoBest)

\* mutant: a score of exactly 0.35 is rejected too
belowFloor_inclusive(score) == ~RatLess(<<MinLegScore, 100>>, score)

\* best.score < 0.35
belowFloor(score) == RatLess(score, <<MinLegScore, 100>>)

\* Number(score.toFixed(2)) in hundredths
toFixed2(score) == (200 * score[1] + score[2]) \div (2 * score[2])

beforeOf(b) ==
  [status |-> b.status, result |-> b.result,
   final_score |-> b.final_score, notes |-> b.notes]

\* the notes_append parts of a slip-level proposal, nulls filtered out
ticketNoteParts(ticket, ticketResult) ==
  <<"[AI Grade / settled slip]", "ticket=" \o ticketResult>>
    \o (IF ticket.evidence.confetti THEN <<"confetti">> ELSE <<>>)
    \o (IF ticket.evidence.won_tag THEN <<"WON tag">> ELSE <<>>)
    \o (IF ticket.evidence.lost_tag THEN <<"LOST tag">> ELSE <<>>)
    \o (IF ticket.evidence.paid_amount_shown THEN <<"paid shown">> ELSE <<>>)
    \o (IF ticket.paid_amount THEN <<"paid=">> ELSE <<>>)

\* extracted.bets.find((x) => x.final_score)?.final_score ||
\*   (extracted.ticket.final_score_visible ? "Final shown on settled slip" : null)
RECURSIVE firstFinalScore(_)
firstFinalScore(legs) ==
  IF legs = <<>> THEN NULL
  ELSE IF Head(legs).final_score # NULL THEN Head(legs).final_score
  ELSE firstFinalScore(Tail(legs))

FinalShown == <<"F","i","n","a","l"," ","s","h","o","w","n">>

scoreTextOf(extracted) ==
  IF firstFinalScore(extracted.bets) # NULL THEN firstFinalScore(extracted.bets)
  ELSE IF extracted.ticket.final_score_visible THEN FinalShown
  ELSE NULL

\* mutant: the slip-reference confidence is given to fuzzy matches too
ticketProposal_sure(b, extracted, slipRef, ticketResult) ==
  [bet_id |-> b.id,
   match_reason |-> IF slipRef # <<>> THEN "Matched by slip_ref" ELSE "Slip-level fuzzy match",
   confidence |-> SlipRefConfidence,
   before |-> beforeOf(b),
   after |-> [status |-> "FINAL",
              result |-> ticketResult,
              final_score |-> Coalesce(scoreTextOf(extracted), b.final_score),
              notes_append |-> ticketNoteParts(extracted.ticket, ticketResult)]]

ticketProposal(b, extracted, slipRef, ticketResult) ==
  [bet_id |-> b.id,
   match_reason |-> IF slipRef # <<>> THEN "Matched by slip_ref" ELSE "Slip-level fuzzy match",
   confidence |-> IF slipRef # <<>> THEN SlipRefConfidence ELSE FuzzyTicketConfidence,
   before |-> beforeOf(b),
   after |-> [status |-> "FINAL",
              result |-> ticketResult,
              final_score |-> Coalesce(scoreTextOf(extracted), b.final_score),
              notes_append |-> ticketNoteParts(extracted.ticket, ticketResult)]]

legProposal(b, leg, legResult, score) ==
  [bet_id |-> b.id,
   match_reason |-> "Fuzzy leg match",
   confidence |-> toFixed2(score),
   before |-> beforeOf(b),
   after |-> [status |-> "FINAL",
              result |-> legResult,
              final_score |-> Coalesce(leg.final_score, b.final_score),
              notes_append |-> <<"[AI Grade / visible leg]", "leg=" \o legResult>>
                                 \o (IF leg.leg_index THEN <<"leg#">> ELSE <<>>)
                                 \o (IF leg.total_legs THEN <<"of">> ELSE <<>>)]]

Issue(msg, arg) == [msg |-> msg, arg |-> arg]
NoOpenBetsMsg == "No OPEN bets found with slip_ref"
NoSlipRefMsg == "No slip_ref provided/detected. Matching will be fuzzy and review is required."
NoVisibleLegsMsg == "No visible legs could be extracted from the settled slip."
UnmatchedLegMsg == "Could not confidently match visible leg"
Unknown == <<"u","n","k","n","o","w","n">>

legResultOf(leg) == IF leg.result # "" THEN normalizeResult(leg.result) ELSE "OPEN"

\* mutant: a leg without an acceptable row is passed over in silence
legPass_silent(candidates, leg, legResult, best, acc) ==
  IF legResult = "OPEN" \/ best = NoBest \/ belowFloor(best.score) THEN acc
  ELSE [acc EXCEPT !.proposals = Append(@,
          legProposal(candidates[best.bet], leg, legResult, best.score))]

\* one pass of the loop over the visible legs: what leg adds to acc
legPass(candidates, leg, legResult, best, acc) ==
  IF legResult = "OPEN" THEN acc
  ELSE IF best = NoBest \/ belowFloor(best.score)
  THEN [acc EXCEPT !.issues = Append(@,
          Issue(UnmatchedLegMsg, OrElse(leg.play, OrElse(leg.selection, Unknown))))]
  ELSE [acc EXCEPT !.proposals = Append(@,
          legProposal(candidates[best.bet], leg, legResult, best.score))]

\* the loop over the visible legs, from leg i on, given what was built so far
RECURSIVE legLoop(_, _, _, _)
legLoop(visibleLegs, candidates, i, acc) ==
  IF i > Len(visibleLegs) THEN acc
  ELSE legLoop(visibleLegs, candidates, i + 1,
               legPass(candidates, visibleLegs[i], legResultOf(visibleLegs[i]),
                       bestMatch(visibleLegs[i], candidates), acc))

isVisibleLeg(x) == x.play # <<>> \/ x.selection # <<>> \/ x.opponent # <<>>

hasSlipRef(b, slipRef) == trim(b.slip_ref) = slipRef

\* mutant: when no row carries the slip reference, all rows stay candidates
bySlipRef_fallback(candidates, slipRef) ==
  LET keep(b) == hasSlipRef(b, slipRef)
  IN  IF SelectSeq(candidates, keep) = <<>> THEN candidates ELSE SelectSeq(candidates, keep)

bySlipRef(candidates, slipRef) ==
  LET keep(b) == hasSlipRef(b, slipRef) IN SelectSeq(candidates, keep)

\* if (withBook.length) candidates = withBook
narrowTo(withBook, candidates) == IF withBook # <<>> THEN withBook ELSE candidates

byBook(candidates, bookHint) ==
  LET keep(b) == includes(toLowerCase(b.book), bookHint)
  IN  narrowTo(SelectSeq(candidates, keep), candidates)

slipRefOf(extracted, opts) == trim(OrElse(opts.slipRefHint, extracted.ticket.slip_ref))

bookHintOf(extracted, opts) == toLowerCase(trim(OrElse(opts.bookHint, extracted.ticket.book)))

\* the ticket-level settlement applies: FINAL, a result, and candidates left
ticketLevel(ticketStatus, ticketResult, candidates) ==
  ticketStatus = "FINAL" /\ ticketResult # "OPEN" /\ candidates # <<>>

\* return { proposals, issues, matchedCount: proposals.length }
returned(r) ==
  [proposals |-> r.proposals, issues |-> r.issues, matchedCount |-> Len(r.proposals)]

\* the rows kept by the slip reference, when there is one
narrowedBy(openBets, slipRef) ==
  IF slipRef # <<>> THEN bySlipRef(openBets, slipRef) ELSE openBets

\* the issue pushed when there is no slip reference
issuesOf(slipRef) == IF slipRef # <<>> THEN <<>> ELSE <<Issue(NoSlipRefMsg, <<>>)>>

\* the rows kept by the book hint, when there is one
candidatesBy(narrowed, bookHint) ==
  IF bookHint # <<>> THEN byBook(narrowed, bookHint) ELSE narrowed

\* buildProposals once the candidates are settled
proposalsFor(candidates, extracted, ticketStatus, ticketResult, slipRef, issues0, visibleLegs) ==
  IF ticketLevel(ticketStatus, ticketResult, candidates)
  THEN [proposals |-> [i \in 1..Len(candidates) |->
                         ticketProposal(candidates[i], extracted, slipRef, ticketResult)],
        issues |-> issues0,
        matchedCount |-> Len(candidates)]
  ELSE IF visibleLegs = <<>>
  THEN [proposals |-> <<>>,
        issues |-> Append(issues0, Issue(NoVisibleLegsMsg, <<>>)),
        matchedCount |-> 0]
  ELSE returned(legLoop(visibleLegs, candidates, 1,
                     [proposals |-> <<>>, issues |-> issues0]))

\* buildProposals once the slip reference and the book hint are settled
proposalsWith(narrowed, extracted, slipRef, bookHint) ==
  IF slipRef # <<>> /\ narrowed = <<>>
  THEN [proposals |-> <<>>,
        issues |-> <<Issue(NoOpenBetsMsg, slipRef)>>,
        matchedCount |-> 0]
  ELSE proposalsFor(candidatesBy(narrowed, bookHint), extracted,
                    normalizeStatus(extracted.ticket.ticket_status),
                    normalizeResult(extracted.ticket.ticket_result),
                    slipRef, issuesOf(slipRef),
                    SelectSeq(extracted.bets, isVisibleLeg))

proposalsHinted(openBets, extracted, slipRef, bookHint) ==
  proposalsWith(narrowedBy(openBets, slipRef), extracted, slipRef, bookHint)

buildProposals(openBets, extracted, opts) ==
  proposalsHinted(openBets, extracted, slipRefOf(extracted, opts),
                  bookHintOf(extracted, opts))

(***************************************************************************)
(* Bounded inputs of the leg matcher                                       *)
(***************************************************************************)
MaxCand == 2
MaxLegs == 2

EMPTY == <<>>
Lakers == <<"L","a","k","e","r","s">>
lakers == <<"l","a","k","e","r","s">>
LALakers == <<"L","A"," ","L","a","k","e","r","s">>
ML == <<"M","L">>
ml == <<"m","l">>
Spread == <<"S","p","r","e","a","d">>
spread == <<"s","p","r","e","a","d">>
A1 == <<"A">>
B1 == <<"B">>
BostonCeltics == <<"B","o","s","t","o","n"," ","C","e","l","t","i","c","s">>
BostonCelticsGreen == <<"B","o","s","t","o","n"," ","C","e","l","t","i","c","s"," ","G","r","e","e","n">>
R1 == <<"R","1">>
R1padded == <<" ","R","1"," ">>
R2 == <<"R","2">>
R3 == <<"R","3">>
DK == <<"D","K">>
dk == <<"d","k">>
FD == <<"F","D">>
Score10 == <<"1","-","0">>

Row(id, play, market, selection, opponent, slip_ref, book) ==
  [id |-> id, status |-> "OPEN", result |-> "OPEN",
   play |-> play, market |-> market, selection |-> selection, opponent |-> opponent,
   slip_ref |-> slip_ref, book |-> book, final_score |-> NULL, notes |-> <<>>]

\* open ledger rows as the bets page and the slip scanner write them: play and
\* market are never empty, slip_ref and book are trimmed
RowPool ==
  { Row(1, Lakers, ML, Spread, EMPTY, R1, DK),
    Row(2, lakers, ml, spread, EMPTY, R1, EMPTY),
    Row(3, LALakers, ML, EMPTY, BostonCelticsGreen, R2, FD),
    Row(4, A1, B1, EMPTY, EMPTY, EMPTY, EMPTY),
    Row(5, Lakers, Spread, ML, EMPTY, EMPTY, DK) }

Leg(play, selection, market, opponent, result, final_score) ==
  [play |-> play, selection |-> selection, market |-> market, opponent |-> opponent,
   result |-> result, final_score |-> final_score,
   leg_index |-> final_score # NULL, total_legs |-> FALSE]

\* legs as normalizeExtracted leaves them: result is "" (null) or a result word
LegPool ==
  { Leg(Lakers, ML, Spread, EMPTY, "PUSH", NULL),
    Leg(EMPTY, EMPTY, EMPTY, BostonCeltics, "LOSS", Score10),
    Leg(A1, B1, EMPTY, EMPTY, "WIN", NULL),
    Leg(Lakers, EMPTY, ML, EMPTY, "", NULL),
    Leg(EMPTY, EMPTY, ML, EMPTY, "WIN", NULL) }

Evidence(won) ==
  [won_tag |-> won, lost_tag |-> FALSE, confetti |-> won, paid_amount_shown |-> FALSE]

Ticket(status, result, slip_ref, book) ==
  [ticket_status |-> status, ticket_result |-> result, slip_ref |-> slip_ref,
   book |-> book, paid_amount |-> FALSE, final_score_visible |-> result = "WIN",
   evidence |-> Evidence(result = "WIN")]

NoOpts == [slipRefHint |-> EMPTY, bookHint |-> EMPTY]

Request(ticket, opts) == [ticket |-> ticket, opts |-> opts]

\* tickets as normalizeExtracted leaves them, with the caller's hints
RequestPool ==
  { Request(Ticket("OPEN", "OPEN", EMPTY, EMPTY), NoOpts),
    Request(Ticket("FINAL", "OPEN", EMPTY, EMPTY), NoOpts),
    Request(Ticket("FINAL", "WIN", EMPTY, EMPTY), NoOpts),
    Request(Ticket("FINAL", "LOSS", R1padded, EMPTY), NoOpts),
    Request(Ticket("FINAL", "WIN", R2, EMPTY), [slipRefHint |-> R1, bookHint |-> EMPTY]),
    Request(Ticket("FINAL", "WIN", EMPTY, dk), [slipRefHint |-> R3, bookHint |-> EMPTY]),
    Request(Ticket("OPEN", "WIN", EMPTY, EMPTY), [slipRefHint |-> EMPTY, bookHint |-> DK]),
    Request(Ticket("OPEN", "OPEN", R1, dk), NoOpts) }

\* sequences of at most n elements of S
SeqsUpTo(S, n) == UNION {[1..k -> S] : k \in 0..n}

\* sequences of at most n distinct elements of S
DistinctSeqs(S, n) ==
  {q \in SeqsUpTo(S, n) : \A i, j \in 1..Len(q) : i # j => q[i] # q[j]}

(***************************************************************************)
(* Provider router: configuration and chatCompletion                       *)
(***************************************************************************)
Providers == {"groq", "cerebras", "mistral", "hf"}

\* what getProviderConfigs reads of process.env: whether each key is set,
\* whether MISTRAL_MODEL names a vision model, whether HF_MODEL is set
Envs ==
  [GROQ_API_KEY : BOOLEAN, CEREBRAS_API_KEY : BOOLEAN, MISTRAL_API_KEY : BOOLEAN,
   MISTRAL_MODEL_isVision : BOOLEAN, HF_TOKEN : BOOLEAN, HF_MODEL : BOOLEAN]

\* mutant: hf is configured by its token alone
getProviderConfigs_hfByToken(e) ==
  [groq |-> e.GROQ_API_KEY,
   cerebras |-> e.CEREBRAS_API_KEY,
   mistral |-> e.MISTRAL_API_KEY /\ ~e.MISTRAL_MODEL_isVision,
   hf |-> e.HF_TOKEN]

\* for each provider, whether its config is defined
getProviderConfigs(e) ==
  [groq |-> e.GROQ_API_KEY,
   cerebras |-> e.CEREBRAS_API_KEY,
   mistral |-> e.MISTRAL_API_KEY /\ ~e.MISTRAL_MODEL_isVision,
   hf |-> e.HF_TOKEN /\ e.HF_MODEL]

Item(cfgs, name) == [name |-> name, cfg |-> cfgs[name]]

\* mutant: the balanced order of another revision (groq, mistral, cerebras, hf)
PrimaryOrder_mistralSecond(cfgs, strategy) ==
  IF strategy = "fast"
  THEN <<Item(cfgs, "groq"), Item(cfgs, "cerebras"), Item(cfgs, "mistral"), Item(cfgs, "hf")>>
  ELSE <<Item(cfgs, "groq"), Item(cfgs, "mistral"), Item(cfgs, "cerebras"), Item(cfgs, "hf")>>

\* the order runPrimary hands to tryInOrder
PrimaryOrder(cfgs, strategy) ==
  IF strategy = "fast"
  THEN <<Item(cfgs, "groq"), Item(cfgs, "cerebras"), Item(cfgs, "mistral"), Item(cfgs, "hf")>>
  ELSE <<Item(cfgs, "groq"), Item(cfgs, "cerebras"), Item(cfgs, "mistral"), Item(cfgs, "hf")>>

PrimaryOpts(strategy) ==
  IF strategy = "fast" THEN [temperature |-> 20, max_tokens |-> 900]
  ELSE [temperature |-> 20, max_tokens |-> 1000]

\* mutant: the verifier asks in the order of runPrimary
VerifierOrder_asPrimary(cfgs) ==
  <<Item(cfgs, "groq"), Item(cfgs, "cerebras"), Item(cfgs, "mistral"), Item(cfgs, "hf")>>

\* the order runVerifier hands to tryInOrder
VerifierOrder(cfgs) ==
  <<Item(cfgs, "mistral"), Item(cfgs, "groq"), Item(cfgs, "cerebras"), Item(cfgs, "hf")>>

VerifierOpts == [temperature |-> 0, max_tokens |-> 700]

ConsensusOpts == [temperature |-> 20, max_tokens |-> 900]

isConfigured(item) == item.cfg

\* runConsensus: the four providers in priority order, configured ones only
ConsensusCandidates(cfgs) ==
  SelectSeq(<<Item(cfgs, "groq"), Item(cfgs, "cerebras"), Item(cfgs, "mistral"), Item(cfgs, "hf")>>,
            isConfigured)

\* xs.slice(from) and xs.slice(0, n), from and n counted as JavaScript does
sliceFrom(xs, from) == SubSeq(xs, from + 1, Len(xs))
sliceTo(xs, n) == SubSeq(xs, 1, IF n < Len(xs) THEN n ELSE Len(xs))

\* mutant: the first three candidates are asked together
firstTwo_three(candidates) == sliceTo(candidates, 3)

\* const firstTwo = candidates.slice(0, 2)
firstTwo(candidates) == sliceTo(candidates, 2)

\* mutant: no second answer is sought after a single success
remaining_none(candidates) == <<>>

\* const remaining = candidates.slice(2)
remaining(candidates) == sliceFrom(candidates, 2)

\* mutant: the fallback skips the two providers that already failed
fallbackOrder_untried(candidates) == sliceFrom(candidates, 2)

\* the order of the fallback after both parallel attempts failed
fallbackOrder(candidates) == [i \in 1..Len(candidates) |-> candidates[i]]

\* the bodies and failures a provider's HTTP exchange can end in
Answer1 == <<"O","K">>
Answer2 == <<"N","O">>
Responses ==
  { [fetch |-> "rejected", ok |-> FALSE, json |-> FALSE, content |-> "none", text |-> <<>>],
    [fetch |-> "resolved", ok |-> FALSE, json |-> TRUE, content |-> "string", text |-> Answer1],
    [fetch |-> "resolved", ok |-> TRUE, json |-> FALSE, content |-> "none", text |-> <<>>],
    [fetch |-> "resolved", ok |-> TRUE, json |-> TRUE, content |-> "none", text |-> <<>>],
    [fetch |-> "resolved", ok |-> TRUE, json |-> TRUE, content |-> "string", text |-> Answer1],
    [fetch |-> "resolved", ok |-> TRUE, json |-> TRUE, content |-> "string", text |-> Answer2],
    [fetch |-> "resolved", ok |-> TRUE, json |-> TRUE, content |-> "string", text |-> <<>>],
    [fetch |-> "resolved", ok |-> TRUE, json |-> TRUE, content |-> "array", text |-> <<" ","O","K">>] }

Fulfilled(value) == [status |-> "fulfilled", value |-> value, reason |-> ""]
Rejected(reason) == [status |-> "rejected", value |-> <<>>, reason |-> reason]
Pending == [status |-> "pending", value |-> <<>>, reason |-> ""]

\* how chatCompletion settles on a response
chatCompletion(resp) ==
  IF resp.fetch = "rejected" THEN Rejected("fetch failed")
  ELSE IF ~resp.ok THEN Rejected("LLM API error")
  ELSE IF ~resp.json THEN Rejected("LLM API returned non-JSON response")
  ELSE IF resp.content = "string" THEN Fulfilled(resp.text)
  ELSE IF resp.content = "array" THEN Fulfilled(trim(resp.text))
  ELSE Rejected("Unexpected LLM response shape")

\* one chatCompletion call as issued: provider, options, and how it settled
Call(name, opts) ==
  [name |-> name, temperature |-> opts.temperature, max_tokens |-> opts.max_tokens,
   out |-> Pending]

\* the least index from i on of a configured item of order, 0 if there is none
nextConfigured(order, i) ==
  IF \E j \in i..Len(order) : order[j].cfg
  THEN CHOOSE j \in i..Len(order) : order[j].cfg /\ \A k \in i..(j - 1) : ~order[k].cfg
  ELSE 0

\* mutant: only the last failure is kept for the message
pushTried_lastOnly(tried, name, message) == <<[name |-> name, message |-> message]>>

\* tried.push(`${item.name}: ${e.message}`)
pushTried(tried, name, message) == Append(tried, [name |-> name, message |-> message])

NoReturn == [kind |-> "none", error |-> "", tried |-> <<>>, text |-> <<>>, a |-> <<>>, b |-> <<>>]
ReturnText(t) == [NoReturn EXCEPT !.kind = "text", !.text = t]
ReturnPair(a, b) == [NoReturn EXCEPT !.kind = "pair", !.a = a, !.b = b]
Throw(error, tried) == [NoReturn EXCEPT !.kind = "throw", !.error = error, !.tried = tried]

NoTextProvidersMsg == "No text AI providers configured."
AllFailedMsg == "All providers failed."
NoConsensusProvidersMsg == "No providers configured for consensus."

(***************************************************************************)
(* Net units of a ledger row (lib/ledger)                                  *)
(***************************************************************************)
\* a stored number is a rational <<num, den>>; the null of a numeric column
\* (and any text Number() cannot read) is NaN
NaN == <<0, 0>>
Num(n) == <<n, 1>>

\* Number.isFinite
isFinite(x) == x[2] # 0

\* toNumber(v, 0)
toNumber(v) == IF isFinite(v) THEN v ELSE Num(0)

DigitValue(c) ==
  CASE c = "0" -> 0 [] c = "1" -> 1 [] c = "2" -> 2 [] c = "3" -> 3 [] c = "4" -> 4
    [] c = "5" -> 5 [] c = "6" -> 6 [] c = "7" -> 7 [] c = "8" -> 8 [] c = "9" -> 9

\* the value of a text of digits, given the value of the digits before it
RECURSIVE digitsValue(_, _)
digitsValue(s, acc) ==
  IF s = <<>> THEN acc ELSE digitsValue(Tail(s), 10 * acc + DigitValue(Head(s)))

allDigits(s) == s # <<>> /\ \A i \in 1..Len(s) : s[i] \in Digits

\* Number(text) on whole numbers with an optional sign; "" is 0 and any
\* other text is NaN (the model's texts hold no decimal point or exponent)
parseNumber(s) ==
  IF s = <<>> THEN <<0, 1>>
  ELSE IF Head(s) \in {"-", "+"} /\ allDigits(Tail(s))
       THEN <<(IF Head(s) = "-" THEN -1 ELSE 1) * digitsValue(Tail(s), 0), 1>>
  ELSE IF allDigits(s) THEN <<digitsValue(s, 0), 1>>
  ELSE <<0, 0>>

Number(s) == parseNumber(trim(s))

RatMul(x, y) == <<x[1] * y[1], x[2] * y[2]>>
RatNeg(x) == <<-x[1], x[2]>>
RatAbs(x) == IF x[1] < 0 THEN RatNeg(x) ELSE x
\* 100 / x and x / 100
HundredOver(x) == <<100 * x[2], x[1]>>
OverHundred(x) == <<x[1], 100 * x[2]>>

\* mutant: the payouts of favourites and underdogs are exchanged
profitIfWinUnits_swapped(odds, units) ==
  IF ~isFinite(odds) \/ odds[1] = 0 THEN Num(0)
  ELSE IF ~isFinite(units) \/ units[1] <= 0 THEN Num(0)
  ELSE IF odds[1] > 0 THEN RatMul(units, HundredOver(RatAbs(odds)))
  ELSE RatMul(units, OverHundred(RatAbs(odds)))

profitIfWinUnits(odds, units) ==
  IF ~isFinite(odds) \/ odds[1] = 0 THEN Num(0)
  ELSE IF ~isFinite(units) \/ units[1] <= 0 THEN Num(0)
  ELSE IF odds[1] > 0 THEN RatMul(units, OverHundred(odds))
  ELSE RatMul(units, HundredOver(RatAbs(odds)))

netUnits(b) ==
  IF UpperWord(b.status) # "FINAL" THEN Num(0)
  ELSE IF UpperWord(b.result) = "WIN"
       THEN profitIfWinUnits(toNumber(b.odds), toNumber(b.units))
  ELSE IF UpperWord(b.result) = "LOSS" THEN RatNeg(toNumber(b.units))
  ELSE Num(0)

\* the fields of a row that netUnits reads
Stake(status, result, odds, units) ==
  [status |-> status, result |-> result, odds |-> odds, units |-> units]

StakePool ==
  { Stake(st, rs, odds, units) :
      st \in {"FINAL", "OPEN", "final"},
      rs \in Results \cup {"win"},
      odds \in {NaN, Num(0), Num(-110), Num(-200), Num(100), Num(150)},
      units \in {NaN, Num(-1), Num(0), <<1, 2>>, Num(1), Num(2)} }

(***************************************************************************)
(* Ledger: the rows of the bets table and the inputs of what writes them   *)
(***************************************************************************)
MaxRows == 2
MaxRaces == 1

Today == 2
BK == <<"B","K">>
NBA == <<"N","B","A">>
Blank == <<" ">>
Celtics == <<"C","e","l","t","i","c","s">>
LakersMoneyLine ==
  <<"L","A"," ","L","a","k","e","r","s"," ","m","o","n","e","y"," ","l","i","n","e">>
Parlay == <<"P","a","r","l","a","y">>

MinusOneTen == <<"-","1","1","0">>
Two == <<"2">>
One == <<"1">>

\* the form of the bets page: the state save() reads
Form(date, market, play, opponent, finalScore, status, result, notes) ==
  [date |-> date, capper |-> BK, league |-> NBA, market |-> market, play |-> play,
   opponent |-> opponent, finalScore |-> finalScore,
   odds |-> MinusOneTen, units |-> Two,
   status |-> status, result |-> result, notes |-> notes]

FormPool ==
  { Form(1, ML, Lakers, EMPTY, EMPTY, "OPEN", "OPEN", <<>>),
    Form(1, ML, Lakers, EMPTY, EMPTY, "FINAL", "OPEN", <<>>),
    Form(1, ML, Lakers, EMPTY, Score10, "FINAL", "WIN", <<>>),
    Form(Today, ML, Blank, EMPTY, EMPTY, "FINAL", "OPEN", <<>>) }

\* what resolveLeagues answers for one league text, or that it threw
Unresolved == [resolved |-> FALSE, threw |-> FALSE, league_abbrev |-> <<>>]
ResolvedAs(abbrev) == [resolved |-> TRUE, threw |-> FALSE, league_abbrev |-> abbrev]
ResolveThrew == [resolved |-> FALSE, threw |-> TRUE, league_abbrev |-> <<>>]
Resolutions == {Unresolved, ResolvedAs(NBA)}

MissingFieldsMsg == "Missing required fields: date, capper, league, market, play."
LeagueNotStandardMsg == "League is not standardized yet."
FinalNeedsResultMsg == "If Status is FINAL, Result must be WIN/LOSS/PUSH/VOID/CASHOUT."
DbErrorMsg == "database error"
ResolveFailedMsg == "Resolve failed"

\* !date || !capper.trim() || !league.trim() || !market.trim() || !play.trim()
requiredMissing(f) ==
  \/ f.date = 0
  \/ trim(f.capper) = <<>>
  \/ trim(f.league) = <<>>
  \/ trim(f.market) = <<>>
  \/ trim(f.play) = <<>>

\* mutant: the guard of save() is gone
saveGuard_off(status, result) == FALSE

\* Guard: if FINAL, result cannot be OPEN
saveGuard(status, result) == status = "FINAL" /\ result = "OPEN"

\* the payload of save(), league standardized
savePayload(f, resolution) ==
  [date |-> f.date,
   capper |-> trim(f.capper),
   league |-> resolution.league_abbrev,
   market |-> trim(f.market),
   play |-> trim(f.play),
   odds |-> IF trim(f.odds) # <<>> THEN Number(f.odds) ELSE NaN,
   units |-> IF trim(f.units) # <<>> THEN Number(f.units) ELSE Num(1),
   opponent |-> trim(f.opponent),
   final_score |-> IF trim(f.finalScore) # <<>> THEN trim(f.finalScore) ELSE NULL,
   status |-> f.status,
   result |-> f.result,
   notes |-> f.notes]

\* mutant: the new row keeps the status and result selected in the form
insertedManual_asSelected(id, p) ==
  [id |-> id, created |-> id, date |-> p.date, capper |-> p.capper, league |-> p.league,
   market |-> p.market, play |-> p.play, selection |-> <<>>, opponent |-> p.opponent,
   odds |-> p.odds, units |-> p.units,
   final_score |-> p.final_score, status |-> p.status, result |-> p.result, notes |-> p.notes,
   slip_ref |-> <<>>, book |-> <<>>]

\* the row an insert of a manual payload creates
insertedManual(id, p) ==
  [id |-> id, created |-> id, date |-> p.date, capper |-> p.capper, league |-> p.league,
   market |-> p.market, play |-> p.play, selection |-> <<>>, opponent |-> p.opponent,
   odds |-> p.odds, units |-> p.units,
   final_score |-> p.final_score, status |-> "OPEN", result |-> "OPEN", notes |-> p.notes,
   slip_ref |-> <<>>, book |-> <<>>]

\* a row after update(payload)
updatedManual(row, p) ==
  [row EXCEPT !.date = p.date, !.capper = p.capper, !.league = p.league,
              !.market = p.market, !.play = p.play, !.opponent = p.opponent,
              !.odds = p.odds, !.units = p.units,
              !.final_score = p.final_score, !.status = p.status, !.result = p.result,
              !.notes = p.notes]

\* a proposed bet of the slip scanner, as edited in its table
Proposed(date, market, play, selection, opponent, ticket_type) ==
  [date |-> date, capper |-> BK, league |-> NBA, market |-> market, play |-> play,
   selection |-> selection, opponent |-> opponent, odds |-> EMPTY, units |-> One,
   notes |-> <<>>, ticket_type |-> ticket_type]

\* the scanner's rows with its book and slip_ref fields
Scan(rows, book, slipRef) == [rows |-> rows, book |-> book, slipRef |-> slipRef]

ScanPool ==
  { Scan(<<Proposed(Today, ML, Lakers, EMPTY, EMPTY, "PARLAY"),
           Proposed(Today, Spread, LakersMoneyLine, ML, Celtics, "PARLAY")>>, EMPTY, R1padded),
    Scan(<<Proposed(Today, ML, Lakers, EMPTY, EMPTY, "SINGLE"),
           Proposed(Today, ML, Blank, EMPTY, EMPTY, "SINGLE")>>, EMPTY, EMPTY),
    Scan(<<Proposed(Today, ML, Blank, EMPTY, EMPTY, "SINGLE")>>, DK, R1) }

\* mutant: only the first row is validated
validateRows_firstOnly(rs) == {i \in DOMAIN rs : i = 1 /\ requiredMissing(rs[i])}

\* validateRows: the rows that miss a required field
validateRows(rs) == {i \in DOMAIN rs : requiredMissing(rs[i])}

\* Number.isFinite(n) ? n : fallback
finiteOr(n, fallback) == IF isFinite(n) THEN n ELSE fallback

\* one row of the payload of addToLedger
scannedRow(id, created, r, resolution, book, slipRef) ==
  [id |-> id, created |-> created, date |-> r.date, capper |-> trim(r.capper),
   league |-> resolution.league_abbrev,
   market |-> IF r.ticket_type = "PARLAY" THEN Parlay ELSE trim(r.market),
   play |-> trim(r.play), selection |-> trim(r.selection), opponent |-> trim(r.opponent),
   odds |-> finiteOr(IF trim(r.odds) # <<>> THEN Number(r.odds) ELSE NaN, NaN),
   units |-> finiteOr(IF trim(r.units) # <<>> THEN Number(r.units) ELSE Num(1), Num(1)),
   final_score |-> NULL, status |-> "OPEN", result |-> "OPEN", notes |-> r.notes,
   slip_ref |-> trim(slipRef), book |-> trim(book)]

(***************************************************************************)
(* Slip grading endpoint                                                   *)
(***************************************************************************)
CommitFloor == 75

\* mutant: the floor of slip-level fuzzy matches is used for the commit
isLowConfidence_fuzzyFloor(p) == p.confidence < FuzzyTicketConfidence

\* p.confidence < 0.75
isLowConfidence(p) == p.confidence < CommitFloor

lowConfidence(proposals) == SelectSeq(proposals, isLowConfidence)

NoProposalsMsg == "No grade proposals generated."
LowConfidenceMsg == "Low-confidence matches present. Review before applying."

Reason(msg, n) == [msg |-> msg, n |-> n]

commitBlockedReasons(proposals) ==
  (IF proposals = <<>> THEN <<Reason(NoProposalsMsg, 0)>> ELSE <<>>)
    \o (IF lowConfidence(proposals) # <<>>
        THEN <<Reason(LowConfidenceMsg, Len(lowConfidence(proposals)))>>
        ELSE <<>>)

\* the request of the endpoint: bearer token, form fields
\* an uploaded file: whether the form carries one, its MIME type and size
Upload(isFile, type, size) == [isFile |-> isFile, type |-> type, size |-> size]

MaxImageBytes == 12 * 1024 * 1024

ImagePng == <<"i","m","a","g","e","/","p","n","g">>
TextPlain == <<"t","e","x","t","/","p","l","a","i","n">>
ImagePrefix == <<"i","m","a","g","e","/">>

\* a request to the grading endpoint; the file of the form is a small PNG
\* image unless withFile names another
GradeRequest(token, hasFile, commit, book, slip_ref) ==
  [token |-> token, hasFile |-> hasFile, commit |-> commit, book |-> book,
   slip_ref |-> slip_ref,
   file |-> Upload(hasFile, IF hasFile THEN ImagePng ELSE <<>>, IF hasFile THEN 1 ELSE 0)]

withFile(req, type, size) == [req EXCEPT !.file = Upload(TRUE, type, size)]

GradeRequestPool ==
  { GradeRequest("valid", TRUE, TRUE, EMPTY, EMPTY),
    GradeRequest("valid", TRUE, FALSE, dk, R1padded),
    GradeRequest("valid", TRUE, TRUE, EMPTY, R1),
    GradeRequest("valid", FALSE, TRUE, EMPTY, EMPTY),
    GradeRequest("invalid", TRUE, TRUE, EMPTY, EMPTY),
    GradeRequest("", TRUE, TRUE, EMPTY, EMPTY),
    withFile(GradeRequest("valid", TRUE, FALSE, EMPTY, EMPTY), TextPlain, 1),
    withFile(GradeRequest("valid", TRUE, FALSE, EMPTY, R1), ImagePng, MaxImageBytes + 1) }

FullLeg == Leg(LakersMoneyLine, EMPTY, ML, Celtics, "WIN", NULL)
PartLeg == Leg(LakersMoneyLine, EMPTY, EMPTY, Celtics, "LOSS", NULL)
\* a leg with the tokens of the LakersMoneyLine row but half its opponent: 0.75
LAMoneyLine == <<"L","A"," ","m","o","n","e","y"," ","l","i","n","e">>
CelticsLakers == <<"C","e","l","t","i","c","s"," ","L","a","k","e","r","s">>
EdgeLeg == Leg(LAMoneyLine, ML, EMPTY, CelticsLakers, "PUSH", NULL)
OpenTicket == Ticket("OPEN", "OPEN", EMPTY, EMPTY)

\* what the vision model's answer normalizes to
SlipPool ==
  { [ticket |-> Ticket("FINAL", "WIN", R1, EMPTY), bets |-> <<>>],
    [ticket |-> Ticket("FINAL", "LOSS", EMPTY, EMPTY), bets |-> <<>>],
    [ticket |-> OpenTicket, bets |-> <<Leg(Lakers, EMPTY, ML, EMPTY, "WIN", NULL)>>],
    [ticket |-> OpenTicket, bets |-> <<FullLeg, FullLeg, PartLeg, FullLeg, FullLeg>>],
    [ticket |-> OpenTicket, bets |-> <<FullLeg, FullLeg, FullLeg, FullLeg, FullLeg>>],
    [ticket |-> OpenTicket, bets |-> <<EdgeLeg>>],
    [ticket |-> OpenTicket, bets |-> <<>>] }

\* q.eq("status", "OPEN"), narrowed by slip_ref and book when given
isOpenMatch(b, slipRef, book) ==
  /\ b.status = "OPEN"
  /\ slipRef # <<>> => b.slip_ref = slipRef
  /\ book # <<>> => includes(toLowerCase(b.book), toLowerCase(book))

\* .order("date", desc).order("created_at", desc): a comes no later than b
ordered(a, b) == a.date > b.date \/ (a.date = b.date /\ a.created >= b.created)

\* the orders in which the select can return the rows of S
selectOrders(S) ==
  {q \in [1..Cardinality(S) -> S] :
     /\ \A i, j \in DOMAIN q : i # j => q[i] # q[j]
     /\ \A i, j \in DOMAIN q : i < j => ordered(q[i], q[j])}

\* const existing = openBets.find((b) => b.id === p.bet_id)
findExisting(openBets, bet_id) ==
  IF \E i \in DOMAIN openBets : openBets[i].id = bet_id
  THEN openBets[CHOOSE i \in DOMAIN openBets :
                  openBets[i].id = bet_id /\ \A j \in 1..(i - 1) : openBets[j].id # bet_id]
  ELSE [id |-> 0]

\* mutant: the patch carries the row's own result
patchOf_keepsResult(existing, p) ==
  [status |-> p.after.status,
   result |-> existing.result,
   final_score |-> p.after.final_score,
   notes |-> existing.notes \o p.after.notes_append]

\* the patch of the commit loop for proposal p
patchOf(existing, p) ==
  [status |-> p.after.status,
   result |-> p.after.result,
   final_score |-> p.after.final_score,
   notes |-> existing.notes \o p.after.notes_append]

patched(row, patch) ==
  [row EXCEPT !.status = patch.status, !.result = patch.result,
              !.final_score = patch.final_score, !.notes = patch.notes]

\* the least index from i on of a proposal whose row is among openBets
nextExisting(proposals, openBets, i) ==
  IF \E j \in i..Len(proposals) : findExisting(openBets, proposals[j].bet_id).id # 0
  THEN CHOOSE j \in i..Len(proposals) :
         /\ findExisting(openBets, proposals[j].bet_id).id # 0
         /\ \A k \in i..(j - 1) : findExisting(openBets, proposals[k].bet_id).id = 0
  ELSE 0

Response(status, mode, error) ==
  [status |-> status, mode |-> mode, error |-> error, can_commit |-> FALSE,
   commit_blocked_reasons |-> <<>>, proposals_count |-> 0, updated_bet_ids |-> <<>>]

NoResponse == Response(0, "none", "")

(***************************************************************************)
(* Slip scan endpoint (src/app/api/slips/scan/route.ts): vision providers, *)
(* callVisionProvider and the scoring of extractions                       *)
(***************************************************************************)
VisionProviders == <<"mistral", "groq", "hf", "cerebras">>

\* what getVisionProviders reads of process.env: for each provider, whether
\* both its key and its vision model are set
VisionEnvs == [{"mistral", "groq", "hf", "cerebras"} -> BOOLEAN]

isVisionConfigured(e, name) == e[name]

RECURSIVE configuredFrom(_, _)
configuredFrom(e, names) ==
  IF names = <<>> THEN <<>>
  ELSE IF isVisionConfigured(e, Head(names)) THEN <<Head(names)>> \o configuredFrom(e, Tail(names))
  ELSE configuredFrom(e, Tail(names))

\* the provider list, in the order mistral, groq, hf, cerebras
getVisionProviders(e) == configuredFrom(e, VisionProviders)

startsWith(s, p) == Len(s) >= Len(p) /\ SubSeq(s, 1, Len(p)) = p
endsWith(s, p) == Len(s) >= Len(p) /\ SubSeq(s, Len(s) - Len(p) + 1, Len(s)) = p

\* the backquote is written ^ in the texts of the model
Fence == <<"^","^","^">>
FenceJson == <<"^","^","^","j","s","o","n">>

\* .replace(/^<p>\s*/i, ""), p in lower case
dropPrefix(s, p) ==
  IF startsWith(toLowerCase(s), p) THEN trimStart(SubSeq(s, Len(p) + 1, Len(s))) ELSE s

\* .replace(/<p>$/i, "")
dropSuffix(s, p) == IF endsWith(s, p) THEN SubSeq(s, 1, Len(s) - Len(p)) ELSE s

stripJson(raw) == trim(dropSuffix(dropPrefix(dropPrefix(trim(raw), FenceJson), Fence), Fence))

\* String.prototype.indexOf and lastIndexOf of one character, counted from
\* 0, -1 when absent
indexOf(s, c) ==
  IF \E i \in DOMAIN s : s[i] = c
  THEN (CHOOSE i \in DOMAIN s : s[i] = c /\ \A k \in 1..(i - 1) : s[k] # c) - 1
  ELSE -1

lastIndexOf(s, c) ==
  IF \E i \in DOMAIN s : s[i] = c
  THEN (CHOOSE i \in DOMAIN s : s[i] = c /\ \A k \in (i + 1)..Len(s) : s[k] # c) - 1
  ELSE -1

\* one element of bets as the provider wrote it: the fields that the
\* warnings, the scoring and the cross-check read (an absent field is the
\* empty text)
RawBet(league, market, play, odds, units, opponent, selection, line) ==
  [league |-> league, market |-> market, play |-> play, odds |-> odds, units |-> units,
   opponent |-> opponent, selection |-> selection, line |-> line]

\* a parsed JSON object: whether it has a bets array, that array, and its
\* issues array
JsonObject(hasBets, rawBets, issues) == [hasBets |-> hasBets, bets |-> rawBets, issues |-> issues]

JsonNull == [hasBets |-> FALSE, bets |-> <<>>, issues |-> <<"null">>]

Blurry == <<"b","l","u","r","r","y">>
Odds110 == <<"-","1","1","0">>

\* {"issues":["blurry"]}
NoBetsText ==
  <<"{","\"","i","s","s","u","e","s","\"",":","[","\"","b","l","u","r","r","y","\"","]","}">>
\* {"bets":[]}
EmptyBetsText == <<"{","\"","b","e","t","s","\"",":","[","]","}">>
\* {"bets":[{"play":"Lakers"}]}
OneRowText ==
  <<"{","\"","b","e","t","s","\"",":","[","{","\"","p","l","a","y","\"",":",
    "\"","L","a","k","e","r","s","\"","}","]","}">>
\* {"bets":[{"league":"NBA","market":"ML","play":"Lakers","odds":"-110"}]}
FullRowText ==
  <<"{","\"","b","e","t","s","\"",":","[","{","\"","l","e","a","g","u","e","\"",":",
    "\"","N","B","A","\"",",","\"","m","a","r","k","e","t","\"",":","\"","M","L","\"",",",
    "\"","p","l","a","y","\"",":","\"","L","a","k","e","r","s","\"",",",
    "\"","o","d","d","s","\"",":","\"","-","1","1","0","\"","}","]","}">>
\* {oops}
BadBracesText == <<"{","o","o","p","s","}">>
SorryText == <<"s","o","r","r","y">>

\* the JSON texts of the model and the values they denote
JsonDocs ==
  { [text |-> NoBetsText, value |-> JsonObject(FALSE, <<>>, <<Blurry>>)],
    [text |-> EmptyBetsText, value |-> JsonObject(TRUE, <<>>, <<>>)],
    [text |-> OneRowText,
     value |-> JsonObject(TRUE, <<RawBet(EMPTY, EMPTY, Lakers, EMPTY, EMPTY, EMPTY, EMPTY, EMPTY)>>, <<>>)],
    [text |-> FullRowText,
     value |-> JsonObject(TRUE, <<RawBet(NBA, ML, Lakers, Odds110, EMPTY, EMPTY, EMPTY, EMPTY)>>, <<>>)] }

\* JSON.parse inside try/catch: the value of a JSON text, null for any
\* other text
parseOrNull(s) ==
  IF \E d \in JsonDocs : d.text = s THEN (CHOOSE d \in JsonDocs : d.text = s).value ELSE JsonNull

sliced(s, firstBrace, lastBrace) ==
  IF firstBrace = -1 \/ lastBrace = -1 \/ lastBrace <= firstBrace THEN JsonNull
  ELSE parseOrNull(SubSeq(s, firstBrace + 1, lastBrace + 1))

stripped(s) == sliced(s, indexOf(s, "{"), lastIndexOf(s, "}"))

safeJsonParse(raw) == stripped(stripJson(raw))

asString(v) == trim(v)

RECURSIVE nonEmpty(_)
nonEmpty(xs) ==
  IF xs = <<>> THEN <<>>
  ELSE IF Head(xs) # <<>> THEN <<Head(xs)>> \o nonEmpty(Tail(xs))
  ELSE nonEmpty(Tail(xs))

\* v.map(asString).filter(Boolean)
toArrayStrings(v) == nonEmpty([i \in 1..Len(v) |-> asString(v[i])])

One1 == <<"1">>

normalizeBet(b) ==
  [league |-> asString(b.league), market |-> asString(b.market), play |-> asString(b.play),
   odds |-> asString(b.odds), units |-> OrElse(asString(b.units), One1),
   opponent |-> asString(b.opponent), selection |-> asString(b.selection),
   line |-> asString(b.line)]

\* a warning of the scan: its message, the number it carries, the providers
\* and the field names it names
Warning(msg, n, a, b, fields) == [msg |-> msg, n |-> n, a |-> a, b |-> b, fields |-> fields]

AiIssue(text) == Warning("ai", 0, "", "", text)
NoBetsArrayMsg == "AI response did not include a bets array."
RemovedRowsMsg == "Removed empty extracted row(s)."
RowMissingMsg == "Row: missing/unclear."
FallbacksMsg == "Fallbacks attempted before success."
RowCountMismatchMsg == "Cross-check mismatch: row counts."
RowMismatchMsg == "Cross-check mismatch row: differing fields."
AutoSelectedMsg == "Auto-selected cross-check result."
NoRowsMsg == "AI could not confidently extract any bet rows from this image."

isBlankBet(b) ==
  /\ b.league = <<>> /\ b.market = <<>> /\ b.play = <<>> /\ b.odds = <<>> /\ b.units = <<>>
  /\ b.opponent = <<>> /\ b.selection = <<>> /\ b.line = <<>>

isFilledBet(b) == ~isBlankBet(b)

missingOf(b) ==
  (IF b.league = <<>> THEN <<"league">> ELSE <<>>) \o (IF b.market = <<>> THEN <<"market">> ELSE <<>>)
  \o (IF b.play = <<>> THEN <<"play">> ELSE <<>>) \o (IF b.odds = <<>> THEN <<"odds">> ELSE <<>>)

RECURSIVE rowWarnings(_, _)
rowWarnings(bs, i) ==
  IF i > Len(bs) THEN <<>>
  ELSE (IF missingOf(bs[i]) # <<>> THEN <<Warning(RowMissingMsg, i, "", "", missingOf(bs[i]))>> ELSE <<>>)
       \o rowWarnings(bs, i + 1)

normalizedIssues(hasBets, bets, filtered) ==
  (IF hasBets THEN <<>> ELSE <<Warning(NoBetsArrayMsg, 0, "", "", <<>>)>>)
  \o (IF Len(bets) # Len(filtered)
      THEN <<Warning(RemovedRowsMsg, Len(bets) - Len(filtered), "", "", <<>>)>> ELSE <<>>)
  \o rowWarnings(filtered, 1)

normalizedWith(hasBets, bets, filtered) ==
  [extracted |-> filtered, issues |-> normalizedIssues(hasBets, bets, filtered)]

normalizedOf(hasBets, bets) == normalizedWith(hasBets, bets, SelectSeq(bets, isFilledBet))

normalizeExtractedJson(j) ==
  normalizedOf(j.hasBets, [i \in 1..Len(j.bets) |-> normalizeBet(j.bets[i])])

\* Array.from(new Set(xs)): the first occurrence of each element, in order
RECURSIVE unique(_)
unique(xs) ==
  IF xs = <<>> THEN <<>>
  ELSE IF \E i \in 1..(Len(xs) - 1) : xs[i] = xs[Len(xs)] THEN unique(SubSeq(xs, 1, Len(xs) - 1))
  ELSE Append(unique(SubSeq(xs, 1, Len(xs) - 1)), xs[Len(xs)])

\* a part of an array content: its type and its text
Part(type, text) == [type |-> type, text |-> text]

\* what a provider's HTTP exchange ends in: the status, and the content of
\* choices[0].message ("none" also stands for a body that is not JSON)
VisionAnswer(ok, content, text, parts) == [ok |-> ok, content |-> content, text |-> text, parts |-> parts]

isTextPart(p) == p.type = "text" /\ p.text # <<>>

RECURSIVE joinLines(_)
joinLines(parts) ==
  IF parts = <<>> THEN <<>>
  ELSE IF Len(parts) = 1 THEN parts[1].text
  ELSE parts[1].text \o <<"\n">> \o joinLines(Tail(parts))

RECURSIVE trimLines(_)
trimLines(s) ==
  IF s # <<>> /\ Head(s) \in {" ", "\n"} THEN trimLines(Tail(s))
  ELSE IF s # <<>> /\ s[Len(s)] \in {" ", "\n"} THEN trimLines(SubSeq(s, 1, Len(s) - 1))
  ELSE s

extractAssistantText(a) ==
  IF a.content = "string" THEN a.text
  ELSE IF a.content = "array"
  THEN IF SelectSeq(a.parts, isTextPart) # <<>> THEN SelectSeq(a.parts, isTextPart)[1].text
       ELSE trimLines(joinLines(a.parts))
  ELSE <<>>

VisionAnswers ==
  { VisionAnswer(FALSE, "none", <<>>, <<>>),
    VisionAnswer(TRUE, "string", <<>>, <<>>),
    VisionAnswer(TRUE, "string", SorryText, <<>>),
    VisionAnswer(TRUE, "string", BadBracesText, <<>>),
    VisionAnswer(TRUE, "string", NoBetsText, <<>>),
    VisionAnswer(TRUE, "string", FenceJson \o <<" ">> \o EmptyBetsText \o Fence, <<>>),
    VisionAnswer(TRUE, "array", <<>>, <<Part("image_url", <<>>), Part("text", OneRowText)>>),
    VisionAnswer(TRUE, "string", FullRowText, <<>>) }

Extraction(provider, extracted, issues, rawText) ==
  [ok |-> TRUE, provider |-> provider, extracted |-> extracted, issues |-> issues,
   rawText |-> rawText, error |-> ""]

ProviderError(provider, error) ==
  [ok |-> FALSE, provider |-> provider, extracted |-> <<>>, issues |-> <<>>, rawText |-> <<>>,
   error |-> error]

NoExtraction == ProviderError("", "")

aiIssuesOf(parsedJson) == [i \in 1..Len(toArrayStrings(parsedJson.issues)) |-> AiIssue(toArrayStrings(parsedJson.issues)[i])]

extractionOf(provider, assistantText, parsedJson, normed) ==
  Extraction(provider, normed.extracted, unique(aiIssuesOf(parsedJson) \o normed.issues), assistantText)

\* mutant: output that is not JSON is taken as an extraction without rows
parsedOr_lenient(provider, assistantText, parsedJson) ==
  IF parsedJson = JsonNull
  THEN Extraction(provider, <<>>, <<>>, assistantText)
  ELSE extractionOf(provider, assistantText, parsedJson, normalizeExtractedJson(parsedJson))

parsedOr(provider, assistantText, parsedJson) ==
  IF parsedJson = JsonNull THEN ProviderError(provider, "returned non-JSON output")
  ELSE extractionOf(provider, assistantText, parsedJson, normalizeExtractedJson(parsedJson))

textOr(provider, assistantText) ==
  IF assistantText = <<>> THEN ProviderError(provider, "returned no assistant text")
  ELSE parsedOr(provider, assistantText, safeJsonParse(assistantText))

\* what callVisionProvider returns or throws on a provider's answer
callVisionProvider(provider, a) ==
  IF ~a.ok THEN ProviderError(provider, "failed")
  ELSE textOr(provider, extractAssistantText(a))

min(a, b) == IF a < b THEN a ELSE b

betScore(b) ==
  (IF b.league # <<>> THEN 4 ELSE 0) + (IF b.market # <<>> THEN 4 ELSE 0)
  + (IF b.play # <<>> THEN 6 ELSE 0) + (IF b.odds # <<>> THEN 4 ELSE 0)
  + (IF b.units # <<>> THEN 2 ELSE 0) + (IF b.opponent # <<>> THEN 2 ELSE 0)
  + (IF b.selection # <<>> THEN 2 ELSE 0)

RECURSIVE sumBetScores(_)
sumBetScores(bs) == IF bs = <<>> THEN 0 ELSE betScore(Head(bs)) + sumBetScores(Tail(bs))

scoreExtraction(r) == min(Len(r.extracted), 10) * 20 + sumBetScores(r.extracted) - Len(r.issues)

diffsOf(x, y) ==
  (IF toLowerCase(x.league) # toLowerCase(y.league) THEN <<"league">> ELSE <<>>)
  \o (IF toLowerCase(x.market) # toLowerCase(y.market) THEN <<"market">> ELSE <<>>)
  \o (IF toLowerCase(x.play) # toLowerCase(y.play) THEN <<"play">> ELSE <<>>)
  \o (IF x.odds # y.odds THEN <<"odds">> ELSE <<>>)
  \o (IF x.line # y.line THEN <<"line">> ELSE <<>>)

RECURSIVE rowDiffs(_, _, _, _)
rowDiffs(a, b, i, count) ==
  IF i > count THEN <<>>
  ELSE (IF diffsOf(a.extracted[i], b.extracted[i]) # <<>>
        THEN <<Warning(RowMismatchMsg, i, a.provider, b.provider, diffsOf(a.extracted[i], b.extracted[i]))>>
        ELSE <<>>)
       \o rowDiffs(a, b, i + 1, count)

compareExtractions(a, b) ==
  (IF Len(a.extracted) # Len(b.extracted)
   THEN <<Warning(RowCountMismatchMsg, Len(a.extracted), a.provider, b.provider, <<>>)>> ELSE <<>>)
  \o rowDiffs(a, b, 1, min(Len(a.extracted), Len(b.extracted)))

\* what runExtractionWithFallbacks returns
ExtractionResult(chosen, crossCheck, issues) == [chosen |-> chosen, crossCheck |-> crossCheck, issues |-> unique(issues)]

SwitchMargin == 12

crossChecked(chosen, crossCheck, issues) ==
  IF scoreExtraction(crossCheck) >= scoreExtraction(chosen) + SwitchMargin
  THEN ExtractionResult(crossCheck, chosen,
                  Append(issues, Warning(AutoSelectedMsg, 0, crossCheck.provider, chosen.provider, <<>>)))
  ELSE ExtractionResult(chosen, crossCheck, issues)

\* the tail of runExtractionWithFallbacks, from the end of the cross-check loop
finishExtraction(chosen, crossCheck, issues) ==
  IF crossCheck.ok THEN crossChecked(chosen, crossCheck, issues \o compareExtractions(chosen, crossCheck))
  ELSE ExtractionResult(chosen, crossCheck, issues)

\* const issues = [...chosen.issues], with the count of fallbacks if any
issuesAfter(chosen, failures) ==
  chosen.issues \o (IF failures # <<>> THEN <<Warning(FallbacksMsg, Len(failures), "", "", <<>>)>> ELSE <<>>)

UploadPool ==
  { Upload(FALSE, <<>>, 0), Upload(TRUE, <<>>, 1), Upload(TRUE, TextPlain, 1),
    Upload(TRUE, ImagePng, MaxImageBytes), Upload(TRUE, ImagePng, MaxImageBytes + 1) }

\* a request to the scan endpoint: the bearer token ("" for none, "stale"
\* for one getUser rejects), whether the Supabase variables are set, the file
ScanRequest(token, supabaseEnv, file) == [token |-> token, supabaseEnv |-> supabaseEnv, file |-> file]

ScanRequestPool ==
  { ScanRequest(t, s, f) : t \in {"", "stale", "valid"}, s \in BOOLEAN, f \in UploadPool }

ScanResponse(status, error, extracted, issues, provider, cross_check_provider) ==
  [status |-> status, error |-> error, extracted |-> extracted, issues |-> issues,
   provider |-> provider, cross_check_provider |-> cross_check_provider]

ScanError(status, error) == ScanResponse(status, error, <<>>, <<>>, "", "")

\* the success response: the chosen extraction, its rows as strings
scanResponseOf(r) ==
  ScanResponse(200, "", [i \in 1..Len(r.chosen.extracted) |-> normalizeBet(r.chosen.extracted[i])],
               unique(r.issues \o (IF r.chosen.extracted = <<>>
                                   THEN <<Warning(NoRowsMsg, 0, "", "", <<>>)>> ELSE <<>>)),
               r.chosen.provider, r.crossCheck.provider)

(***************************************************************************)
(* League resolve endpoint (src/app/api/leagues/resolve/route.ts): the     *)
(* registry match, the ESPN index and its in-memory cache                  *)
(***************************************************************************)
KeyChars == Alnum \cup {"."}

RECURSIVE dropOutside(_, _)
dropOutside(s, keep) ==
  IF s = <<>> THEN <<>>
  ELSE IF Head(s) \in keep THEN s
  ELSE dropOutside(Tail(s), keep)

\* .replace(/[^...]+/g, " ") for the characters of keep
RECURSIVE replaceOutside(_, _)
replaceOutside(s, keep) ==
  IF s = <<>> THEN <<>>
  ELSE IF Head(s) \in keep THEN <<Head(s)>> \o replaceOutside(Tail(s), keep)
  ELSE <<" ">> \o replaceOutside(dropOutside(Tail(s), keep), keep)

\* norm of the resolve route: s.toLowerCase().replace(/[^a-z0-9.]+/g, " ").trim()
normLeague(s) == trim(replaceOutside(toLowerCase(s), KeyChars))

\* an entry of the ESPN league index
IndexEntry(sport_key, league_key, name, abbrev) ==
  [sport_key |-> sport_key, league_key |-> league_key, name |-> name, abbrev |-> abbrev]

\* a row of league_registry
RegistryRow(sport_key, league_key, league_abbrev, league_name, aliases) ==
  [sport_key |-> sport_key, league_key |-> league_key, league_abbrev |-> league_abbrev,
   league_name |-> league_name, aliases |-> aliases]

\* an item of the request body (none carries a scoreboard_url)
ResolveItem(league_text, sport_key, league_key) ==
  [league_text |-> league_text, sport_key |-> sport_key, league_key |-> league_key]

Basketball == <<"b","a","s","k","e","t","b","a","l","l">>
NbaKey == <<"n","b","a">>
WnbaKey == <<"w","n","b","a">>
WNBA == <<"W","N","B","A">>
Hoops == <<"H","o","o","p","s">>

EspnIndex == <<IndexEntry(Basketball, WnbaKey, WNBA, WNBA), IndexEntry(Basketball, NbaKey, NBA, NBA)>>

scoreOf(nq, nname, nabbr, nkey) ==
  (IF nabbr # <<>> /\ nabbr = nq THEN 100 ELSE 0) + (IF nkey # <<>> /\ nkey = nq THEN 90 ELSE 0)
  + (IF nname # <<>> /\ includes(nname, nq) THEN 60 ELSE 0)
  + (IF nkey # <<>> /\ includes(nkey, nq) THEN 55 ELSE 0)
  + (IF nabbr # <<>> /\ includes(nabbr, nq) THEN 50 ELSE 0)

scoreMatch(q, name, abbrev, league_key) ==
  scoreOf(normLeague(q), normLeague(name), normLeague(abbrev), normLeague(league_key))

\* the pool of texts a registry row answers to
aliasPool(r) ==
  { normLeague(t) : t \in ({r.league_abbrev, r.league_name, r.league_key, r.sport_key}
                          \cup Range(r.aliases)) \ {<<>>} }

isHit(r, q) == q \in aliasPool(r)

\* reg.find(...): the index of the first row that answers to q, 0 if none
findHit(reg, q) ==
  IF \E i \in DOMAIN reg : isHit(reg[i], q)
  THEN CHOOSE i \in DOMAIN reg : isHit(reg[i], q) /\ \A k \in 1..(i - 1) : ~isHit(reg[k], q)
  ELSE 0

\* the entries with a positive score, highest first, equal scores in the
\* order of the index
RECURSIVE insertScored(_, _, _)
insertScored(sorted, x, q) ==
  IF sorted = <<>> THEN <<x>>
  ELSE IF scoreMatch(q, x.name, x.abbrev, x.league_key)
            > scoreMatch(q, Head(sorted).name, Head(sorted).abbrev, Head(sorted).league_key)
  THEN <<x>> \o sorted
  ELSE <<Head(sorted)>> \o insertScored(Tail(sorted), x, q)

RECURSIVE scoredFrom(_, _, _)
scoredFrom(index, i, q) ==
  IF i = 0 THEN <<>>
  ELSE IF scoreMatch(q, index[i].name, index[i].abbrev, index[i].league_key) > 0
  THEN insertScored(scoredFrom(index, i - 1, q), index[i], q)
  ELSE scoredFrom(index, i - 1, q)

MaxCandidates == 10

scored(index, q) == sliceTo(scoredFrom(index, Len(index), q), MaxCandidates)

\* one result of the response: how the item was resolved ("espn",
\* "registry" or "none"), to which league, with which candidates
Resolution(source, league_key, candidates) ==
  [source |-> source, league_key |-> league_key, candidates |-> candidates]

candidateKeys(cs) == [i \in 1..Len(cs) |-> cs[i].league_key]

candidatesFor(league_text, espnIndex) ==
  IF league_text = <<>> THEN <<>> ELSE candidateKeys(scored(espnIndex, league_text))

byRegistry(league_text, reg, hit, espnIndex) ==
  IF league_text # <<>> /\ hit # 0 THEN Resolution("registry", reg[hit].league_key, <<>>)
  ELSE Resolution("none", <<>>, candidatesFor(league_text, espnIndex))

resolved(sport_key, league_key, league_text, reg, espnIndex, reachable) ==
  IF sport_key # <<>> /\ league_key # <<>> /\ league_key \in reachable
  THEN Resolution("espn", league_key, <<>>)
  ELSE byRegistry(league_text, reg, findHit(reg, normLeague(league_text)), espnIndex)

\* one pass of the loop over items; reachable holds the leagues whose
\* scoreboard answers
resolveItem(it, reg, espnIndex, reachable) ==
  resolved(trim(it.sport_key), trim(it.league_key), trim(it.league_text), reg, espnIndex, reachable)

resolveItems(items, reg, espnIndex, reachable) ==
  [i \in 1..Len(items) |-> resolveItem(items[i], reg, espnIndex, reachable)]

\* six hours, in milliseconds
IndexTtl == 6 * 60 * 60 * 1000

NoCache == [present |-> FALSE, ts |-> 0, data |-> <<>>]
Cached(ts, data) == [present |-> TRUE, ts |-> ts, data |-> data]

\* !g.__espnLeagueIndex || (Date.now() - g.__espnLeagueIndex.ts) > 6 * 60 * 60 * 1000
isStale(cache, now) == ~cache.present \/ (now - cache.ts) > IndexTtl

ResolveRequest(token, items) == [token |-> token, items |-> items]

ItemPool ==
  { ResolveItem(<<>>, <<>>, <<>>), ResolveItem(<<>>, Basketball, NbaKey),
    ResolveItem(NBA, <<>>, <<>>), ResolveItem(Hoops, <<>>, <<>>) }

ResolveRequestPool ==
  { ResolveRequest(t, <<it>>) : t \in {"", "stale"}, it \in {ResolveItem(NBA, <<>>, <<>>)} }
  \cup { ResolveRequest("valid", <<it>>) : it \in ItemPool }

RegistryPool == { <<>>, <<RegistryRow(Basketball, NbaKey, NBA, <<>>, <<Hoops>>)>> }

ResolveResponse(status, error, results) == [status |-> status, error |-> error, results |-> results]

(***************************************************************************)
(* The assistant endpoint (app/api/ai/route): the facts the server         *)
(* computes, the JSON an answer is read from, and its validation           *)
(***************************************************************************)
\* a JSON value that is not an object: its type, its text when it is a
\* string (or the literal of a number), and its number
Json(t, s, n) == [t |-> t, s |-> s, n |-> n]
JsUndefined == Json("undefined", <<>>, NaN)
JsNull == Json("null", NULL, NaN)
JsString(s) == Json("string", s, NaN)
JsNumber(s, n) == Json("number", s, n)
JsInt(s) == JsNumber(s, Number(s))

\* the keys of computeFacts' result, in the order of the object literal
FactKeys ==
  << "open_count", "final_wins", "final_losses", "final_pushes",
     "final_risk_units", "final_net_units", "final_roi" >>

KeyText(k) ==
  CASE k = "open_count" -> <<"o","p","e","n","_","c","o","u","n","t">>
    [] k = "final_wins" -> <<"f","i","n","a","l","_","w","i","n","s">>
    [] k = "final_losses" -> <<"f","i","n","a","l","_","l","o","s","s","e","s">>
    [] k = "final_pushes" -> <<"f","i","n","a","l","_","p","u","s","h","e","s">>
    [] k = "final_risk_units" -> <<"f","i","n","a","l","_","r","i","s","k","_","u","n","i","t","s">>
    [] k = "final_net_units" -> <<"f","i","n","a","l","_","n","e","t","_","u","n","i","t","s">>
    [] k = "final_roi" -> <<"f","i","n","a","l","_","r","o","i">>

RatAdd(x, y) == <<x[1] * y[2] + y[1] * x[2], x[2] * y[2]>>

\* Number(x.toFixed(digits)) with scale = 10^digits: the nearest multiple of
\* 1/scale, a tie going away from zero
roundedAt(num, den, scale) ==
  IF num < 0 THEN <<-((2 * (-num) * scale + den) \div (2 * den)), scale>>
  ELSE <<(2 * num * scale + den) \div (2 * den), scale>>

toFixed(x, scale) ==
  IF x[2] < 0 THEN roundedAt(-x[1], -x[2], scale) ELSE roundedAt(x[1], x[2], scale)

\* a row of the bets table as the endpoint reads it
BetRow(id, status, result, odds, units) ==
  [id |-> id, status |-> status, result |-> result, odds |-> odds, units |-> units]

\* the sum of a list of numbers from its i-th on, added to acc
RECURSIVE sumOf(_, _, _)
sumOf(nums, i, acc) ==
  IF i > Len(nums) THEN acc
  ELSE sumOf(nums, i + 1, RatAdd(acc, nums[i]))

countOf(bets, result) ==
  Cardinality({i \in DOMAIN bets :
                 UpperWord(bets[i].status) = "FINAL" /\ UpperWord(bets[i].result) = result})

finalsOf(bets) == SelectSeq(bets, LAMBDA b : UpperWord(b.status) = "FINAL")

roiOf(risk, net) == IF risk[1] * risk[2] > 0 THEN <<net[1] * risk[2], net[2] * risk[1]>> ELSE Num(0)

factsOf(open, wins, losses, pushes, risk, net) ==
  [k \in {FactKeys[i] : i \in DOMAIN FactKeys} |->
     CASE k = "open_count" -> Num(open)
       [] k = "final_wins" -> Num(wins)
       [] k = "final_losses" -> Num(losses)
       [] k = "final_pushes" -> Num(pushes)
       [] k = "final_risk_units" -> toFixed(risk, 10000)
       [] k = "final_net_units" -> toFixed(net, 10000)
       [] k = "final_roi" -> toFixed(roiOf(risk, net), 1000000)]

computeFacts(bets) ==
  factsOf(Cardinality({i \in DOMAIN bets : UpperWord(bets[i].status) = "OPEN"}),
          countOf(bets, "WIN"), countOf(bets, "LOSS"), countOf(bets, "PUSH"),
          sumOf([i \in DOMAIN finalsOf(bets) |-> toNumber(finalsOf(bets)[i].units)], 1, Num(0)),
          sumOf([i \in DOMAIN finalsOf(bets) |-> netUnits(finalsOf(bets)[i])], 1, Num(0)))

\* the array of ids and the object of numbers of an answer
Ids(isArray, items) == [isArray |-> isArray, items |-> items]
NoIds == Ids(FALSE, <<>>)
Nums(t, val) == [t |-> t, val |-> val]
NoNums == Nums("undefined", [k \in {FactKeys[i] : i \in DOMAIN FactKeys} |-> JsUndefined])

\* the JSON of an answer: { answer_markdown, used_bet_ids, numbers_used };
\* t is the type of the value itself, "object" for an answer
AnswerJson(t, answer, ids, nums) ==
  [t |-> t, answer_markdown |-> answer, used_bet_ids |-> ids, numbers_used |-> nums]
NullJson == AnswerJson("null", JsUndefined, NoIds, NoNums)
UndefinedJson == AnswerJson("undefined", JsUndefined, NoIds, NoNums)

\* what safeJsonParse gives: the members of an answer, and the verdict and
\* the fixed answer of a verifier's JSON
Parsed(doc, verdict, fixed) == [doc |-> doc, verdict |-> verdict, fixed |-> fixed]
ParsedNull == Parsed(NullJson, JsUndefined, UndefinedJson)

\* JSON.stringify of the values of the model
quoted(s) == <<"\"">> \o s \o <<"\"">>

scalarText(v) ==
  CASE v.t = "string" -> quoted(v.s)
    [] v.t = "number" -> v.s
    [] OTHER -> <<"n","u","l","l">>

RECURSIVE joinWith(_, _, _)
joinWith(texts, i, acc) ==
  IF i > Len(texts) THEN acc
  ELSE joinWith(texts, i + 1, IF i = 1 THEN texts[i] ELSE acc \o <<",">> \o texts[i])

member(key, text) == quoted(key) \o <<":">> \o text

idsText(ids) == <<"[">> \o joinWith([i \in DOMAIN ids.items |-> scalarText(ids.items[i])], 1, <<>>) \o <<"]">>

presentKeys(nums) == SelectSeq(FactKeys, LAMBDA k : nums.val[k].t # "undefined")

numsText(nums) ==
  IF nums.t = "null" THEN <<"n","u","l","l">>
  ELSE <<"{">> \o joinWith([i \in DOMAIN presentKeys(nums) |->
                              member(KeyText(presentKeys(nums)[i]),
                                     scalarText(nums.val[presentKeys(nums)[i]]))], 1, <<>>)
       \o <<"}">>

answerMembers(d) ==
  (IF d.answer_markdown.t = "undefined" THEN <<>>
   ELSE <<member(<<"a","n","s","w","e","r","_","m","a","r","k","d","o","w","n">>, scalarText(d.answer_markdown))>>)
  \o (IF d.used_bet_ids.isArray THEN <<member(<<"u","s","e","d","_","b","e","t","_","i","d","s">>, idsText(d.used_bet_ids))>> ELSE <<>>)
  \o (IF d.numbers_used.t = "undefined" THEN <<>>
      ELSE <<member(<<"n","u","m","b","e","r","s","_","u","s","e","d">>, numsText(d.numbers_used))>>)

answerText(d) ==
  IF d.t = "object" THEN <<"{">> \o joinWith(answerMembers(d), 1, <<>>) \o <<"}">>
  ELSE <<"n","u","l","l">>

stringify(p) ==
  IF p.verdict.t = "undefined" THEN answerText(p.doc)
  ELSE <<"{">> \o member(<<"v","e","r","d","i","c","t">>, scalarText(p.verdict)) \o <<",">>
       \o member(<<"f","i","x","e","d">>, answerText(p.fixed)) \o <<"}">>

\* the ledgers of the model: none, and one with an open and a settled bet
BetId1 == <<"b","1">>
BetId2 == <<"b","2">>
ZZ == <<"z","z">>
NoLedger == <<>>
TwoBetLedger ==
  << BetRow(BetId1, "OPEN", "OPEN", Num(-110), Num(1)), BetRow(BetId2, "FINAL", "WIN", Num(-110), Num(1)) >>
AssistantLedgers == {NoLedger, TwoBetLedger}

ZeroNum == JsInt(<<"0">>)
OneNum == JsInt(<<"1">>)

numsOf(open, wins, losses, pushes, risk, net, roi) ==
  Nums("object",
       [k \in {FactKeys[i] : i \in DOMAIN FactKeys} |->
          CASE k = "open_count" -> open
            [] k = "final_wins" -> wins
            [] k = "final_losses" -> losses
            [] k = "final_pushes" -> pushes
            [] k = "final_risk_units" -> risk
            [] k = "final_net_units" -> net
            [] k = "final_roi" -> roi])

\* the numbers of the two ledgers as a model would repeat them
ZeroNums == numsOf(ZeroNum, ZeroNum, ZeroNum, ZeroNum, ZeroNum, ZeroNum, ZeroNum)
Net9091 == JsNumber(<<"0",".","9","0","9","1">>, <<9091, 10000>>)
Roi909091 == JsNumber(<<"0",".","9","0","9","0","9","1">>, <<909091, 1000000>>)
TwoBetNums == numsOf(OneNum, OneNum, ZeroNum, ZeroNum, OneNum, Net9091, Roi909091)

Ok == <<"o","k">>
answerOf(ids, nums) == AnswerJson("object", JsString(Ok), Ids(TRUE, ids), nums)

\* the answers of the model
GoodNone == answerOf(<<>>, ZeroNums)
GoodTwo == answerOf(<<JsString(BetId1)>>, TwoBetNums)
\* the return on no settled bet given as null, and as the text "0"
NullRoi == answerOf(<<>>, numsOf(ZeroNum, ZeroNum, ZeroNum, ZeroNum, ZeroNum, ZeroNum, JsNull))
TextRoi == answerOf(<<>>, numsOf(ZeroNum, ZeroNum, ZeroNum, ZeroNum, ZeroNum, ZeroNum, JsString(<<"0">>)))
\* an id given as the number 7, and an empty id
NumberId == answerOf(<<Json("number", <<"7">>, Num(7))>>, TwoBetNums)
EmptyId == answerOf(<<JsString(<<>>), JsString(BetId2)>>, TwoBetNums)
UnknownId == answerOf(<<JsString(BetId1), JsString(ZZ)>>, TwoBetNums)
BlankAnswer == AnswerJson("object", JsString(<<" ">>), Ids(TRUE, <<>>), ZeroNums)
NoAnswer == AnswerJson("object", JsUndefined, Ids(TRUE, <<>>), ZeroNums)
NoNumbers == AnswerJson("object", JsString(Ok), NoIds, NoNums)
NullNumbers == AnswerJson("object", JsString(Ok), NoIds, Nums("null", NoNums.val))
MissingRoi == answerOf(<<>>, numsOf(ZeroNum, ZeroNum, ZeroNum, ZeroNum, ZeroNum, ZeroNum, JsUndefined))
WrongCount == answerOf(<<JsString(BetId1)>>, numsOf(JsInt(<<"2">>), OneNum, ZeroNum, ZeroNum, OneNum, Net9091, Roi909091))

Answers ==
  { GoodNone, GoodTwo, NullRoi, TextRoi, NumberId, EmptyId, UnknownId, BlankAnswer,
    NoAnswer, NoNumbers, NullNumbers, MissingRoi, WrongCount }

Pass == JsString(<<"P","A","S","S">>)
Fail == JsString(<<"F","A","I","L">>)

\* the JSON values of the model: the answers, and the verdicts of a verifier
ParsedPool ==
  { Parsed(a, JsUndefined, UndefinedJson) : a \in Answers }
  \cup { Parsed(UndefinedJson, Pass, NullJson) }
  \cup { Parsed(UndefinedJson, v, a) : v \in {Pass, Fail}, a \in {GoodNone, GoodTwo, NullRoi, UnknownId} }
  \cup { Parsed(UndefinedJson, Fail, NullJson) }

\* the JSON texts of the model and the values they denote
AnswerDocs == { [text |-> stringify(p), value |-> p] : p \in ParsedPool }

\* JSON.parse inside try/catch: the value of a JSON text, null for any other
parseAnswerOrNull(s) ==
  IF \E d \in AnswerDocs : d.text = s THEN (CHOOSE d \in AnswerDocs : d.text = s).value
  ELSE ParsedNull

slicedAnswer(s, firstBrace, lastBrace) ==
  IF firstBrace = -1 \/ lastBrace = -1 \/ lastBrace <= firstBrace THEN ParsedNull
  ELSE parseAnswerOrNull(SubSeq(s, firstBrace + 1, lastBrace + 1))

\* safeJsonParse of the assistant route
safeJsonParseAnswer(raw) == slicedAnswer(stripJson(raw), indexOf(stripJson(raw), "{"), lastIndexOf(stripJson(raw), "}"))

\* Number(v) of a JSON value
numberOf(v) ==
  CASE v.t = "number" -> v.n
    [] v.t = "null" -> Num(0)
    [] v.t = "string" -> Number(v.s)
    [] OTHER -> NaN

RECURSIVE gcd(_, _)
gcd(a, b) == IF b = 0 THEN a ELSE gcd(b, a % b)

\* a number in lowest terms, its denominator positive
reduced(num, den, d) == IF den < 0 THEN <<-(num \div d), (-den) \div d>> ELSE <<num \div d, den \div d>>
lowest(x) == reduced(x[1], x[2], gcd(IF x[1] < 0 THEN -x[1] ELSE x[1], IF x[2] < 0 THEN -x[2] ELSE x[2]))

\* a !== b on numbers is false only for two equal numbers, neither of them NaN
sameNumber(a, b) == isFinite(a) /\ isFinite(b) /\ lowest(a) = lowest(b)

\* the result of validateAnswerJson: the reason names the id or the key it
\* is about
Validation(ok, reason, about, answer_markdown) ==
  [ok |-> ok, reason |-> reason, about |-> about, answer_markdown |-> answer_markdown]
Invalid(reason, about) == Validation(FALSE, reason, about, <<>>)
NotValidated == Invalid("", <<>>)

used(j) == IF j.used_bet_ids.isArray THEN j.used_bet_ids.items ELSE <<>>

\* the ids of the list the loop over used_bet_ids stops at
unknownIds(ids, betsById) ==
  SelectSeq(ids, LAMBDA id : id.t = "string" /\ id.s # <<>> /\ id.s \notin betsById)

\* the keys the loop over the facts stops at
failingKeys(nums, facts) ==
  SelectSeq(FactKeys, LAMBDA k : nums.val[k].t = "undefined" \/ ~sameNumber(numberOf(nums.val[k]), facts[k]))

validateAnswerJson(j, betsById, facts) ==
  IF j.t # "object" THEN Invalid("No JSON object returned.", <<>>)
  ELSE IF j.answer_markdown.t # "string" \/ trim(j.answer_markdown.s) = <<>>
  THEN Invalid("Missing answer_markdown.", <<>>)
  ELSE IF unknownIds(used(j), betsById) # <<>>
  THEN Invalid("Unknown bet id referenced: ", unknownIds(used(j), betsById)[1].s)
  ELSE IF j.numbers_used.t # "object" THEN Invalid("Missing numbers_used.", <<>>)
  ELSE IF failingKeys(j.numbers_used, facts) = <<>>
  THEN Validation(TRUE, "", <<>>, j.answer_markdown.s)
  ELSE IF j.numbers_used.val[failingKeys(j.numbers_used, facts)[1]].t = "undefined"
  THEN Invalid("numbers_used missing ", KeyText(failingKeys(j.numbers_used, facts)[1]))
  ELSE Invalid("numbers_used mismatch ", KeyText(failingKeys(j.numbers_used, facts)[1]))

\* the texts a provider answers the assistant with, and those a verifier
\* answers with
fenced(s) == FenceJson \o <<"\n">> \o s \o <<"\n">> \o Fence
DraftTexts ==
  { stringify(Parsed(a, JsUndefined, UndefinedJson)) : a \in Answers }
  \cup { SorryText, fenced(stringify(Parsed(GoodTwo, JsUndefined, UndefinedJson))) }
VerdictTexts ==
  { stringify(p) : p \in { q \in ParsedPool : q.verdict.t # "undefined" } }
  \cup { SorryText, stringify(Parsed(GoodNone, JsUndefined, UndefinedJson)) }

\* a request to the endpoint: the bearer token, the prompt and the strategy
\* of the body, and what the service holds for it (the Supabase settings,
\* the user's rows, null when the select fails)
AiRequest(token, prompt, strategy, supabaseEnv, rows) ==
  [token |-> token, prompt |-> prompt, strategy |-> strategy, supabaseEnv |-> supabaseEnv,
   rows |-> rows]

Hi == <<"h","i">>
ExportOpenPrompt == <<"E","x","p","o","r","t"," ","O","P","E","N"," ","b","e","t","s">>
ExportAllPrompt == <<"p","l","e","a","s","e"," ","e","x","p","o","r","t"," ","a","l","l">>
ExportOpen == <<"e","x","p","o","r","t"," ","o","p","e","n">>
ExportAll == <<"e","x","p","o","r","t"," ","a","l","l">>

AiRequestPool ==
  { AiRequest(t, p, s, e, rows) :
      t \in {"", "stale", "valid"}, p \in {<<>>, Hi},
      s \in {"fast", "balanced", "consensus"}, e \in BOOLEAN,
      rows \in AssistantLedgers \cup {NULL} }
  \cup { AiRequest("valid", p, "balanced", TRUE, TwoBetLedger) : p \in {ExportOpenPrompt, ExportAllPrompt} }

\* the response: the status, the error and its details, or the answer
AiResponse(status, error, details, answer_markdown) ==
  [status |-> status, error |-> error, details |-> details, answer_markdown |-> answer_markdown]
AiError(status, error) == AiResponse(status, error, NotValidated, NULL)
AiAnswer(answer_markdown) == AiResponse(200, "", NotValidated, answer_markdown)

\* betsToCSV(rows) inside a csv fence: of the table the model keeps the ids
csvAnswer(rows) ==
  Fence \o <<"c","s","v">> \o <<"\n">> \o joinWith([i \in DOMAIN rows |-> rows[i].id], 1, <<>>) \o <<"\n">> \o Fence

(***************************************************************************)
(* The league register and league list endpoints (app/api/leagues)         *)
(***************************************************************************)
scoreboardUrl(sport_key, league_key) ==
  <<"h","t","t","p","s",":","/","/","s","i","t","e",".","a","p","i",".","e","s","p","n",".","c","o","m","/","a","p","i","s","/","s","i","t","e","/","v","2","/","s","p","o","r","t","s","/">> \o sport_key \o <<"/">> \o league_key
  \o <<"/","s","c","o","r","e","b","o","a","r","d">>

\* body.aliases.map(String).map(trim).filter(Boolean)
cleanAliases(aliases) == SelectSeq([i \in DOMAIN aliases |-> trim(aliases[i])], LAMBDA a : a # <<>>)

\* Array.from(new Set([...existing, ...aliases]))
mergedAliases(existing, aliases) == unique(existing \o aliases)

\* what the scoreboard fetch gives: null when it fails, else the first of
\* its leagues
Scoreboard(ok, abbreviation, name) == [ok |-> ok, abbreviation |-> abbreviation, name |-> name]
NoScoreboard == Scoreboard(FALSE, NULL, NULL)
Association == <<"N","a","t","i","o","n","a","l"," ","B","a","s","k","e","t","b","a","l","l"," ","A","s","s","o","c","i","a","t","i","o","n">>
ScoreboardAnswers == {NoScoreboard, Scoreboard(TRUE, NBA, Association)}

\* the row of a sport and league in the table, if there is one
rowsOf(table, sport_key, league_key) ==
  {r \in table : r.sport_key = sport_key /\ r.league_key = league_key}

\* .select("aliases").eq(...).eq(...).maybeSingle(), then existing?.aliases ?? []
existingAliases(table, sport_key, league_key) ==
  IF rowsOf(table, sport_key, league_key) = {} THEN <<>>
  ELSE (CHOOSE r \in rowsOf(table, sport_key, league_key) : TRUE).aliases

\* upsert on conflict (user_id, sport_key, league_key)
upsert(table, row) == (table \ rowsOf(table, row.sport_key, row.league_key)) \cup {row}

RegisterRequest(token, sport_key, league_key, aliases) ==
  [token |-> token, sport_key |-> sport_key, league_key |-> league_key, aliases |-> aliases]

Assoc == <<"A","s","s","o","c">>
AliasLists == {<<>>, <<Hoops>>, <<Assoc, Blank, Hoops>>}

RegisterRequestPool ==
  { RegisterRequest(t, s, NbaKey, a) : t \in {"", "stale", "valid"}, s \in {Basketball, Blank}, a \in AliasLists }

NoRegistryRow == RegistryRow(<<>>, <<>>, NULL, NULL, <<>>)

\* the response of either endpoint
RegistryResponse(status, error, league, scoreboard_url, leagues) ==
  [status |-> status, error |-> error, league |-> league, scoreboard_url |-> scoreboard_url,
   leagues |-> leagues]
RegistryError(status, error) == RegistryResponse(status, error, NoRegistryRow, <<>>, {})

(***************************************************************************)
(* State                                                                   *)
(***************************************************************************)
VARIABLES
  mIn,      \* the arguments of one buildProposals call
  mPc,      \* "input" before the call, "built" after it
  mOut,     \* what the call returned
  rEnv,     \* the environment the router reads its configuration from
  rOp,      \* the router operation called, with its strategy
  rPc,      \* where the call stands: idle, tryInOrder, allSettled, second, done
  rOrder,   \* the provider list being iterated
  rOpts,    \* the options of the calls of that iteration
  rIdx,     \* the position of the awaited call in rOrder
  rTried,   \* tryInOrder's list of failures
  rLog,     \* every chatCompletion call issued, in order, with how it settled
  rRet,     \* what the operation returned or threw
  bets,     \* the rows of the bets table
  nextId,   \* the id the next inserted row gets
  ui,       \* what the page of the last ledger operation shows
  g,        \* the request of the slip grading endpoint under way
  net,      \* one call of netUnits: its row and what it returned
  slipScan, \* the request of the slip scan endpoint under way
  lg,       \* the league resolve endpoint: clock, index cache, requests
  ai,       \* the assistant endpoint: its request, its calls and its response
  rg,       \* the league register and league list endpoints: table and requests
  gr        \* the grading requests running side by side on the bets table

matchVars == <<mIn, mPc, mOut>>
routerVars == <<rEnv, rOp, rPc, rOrder, rOpts, rIdx, rTried, rLog, rRet>>
ledgerVars == <<bets, nextId, ui, g>>

\* the variables each group of operations leaves alone
notMatch == <<routerVars, ledgerVars, net, slipScan, lg, ai, rg, gr>>
notRouter == <<matchVars, ledgerVars, net, slipScan, lg, ai, rg, gr>>
notLedger == <<matchVars, routerVars, net, slipScan, lg, ai, rg, gr>>
notNet == <<matchVars, routerVars, ledgerVars, slipScan, lg, ai, rg, gr>>
notScan == <<matchVars, routerVars, ledgerVars, net, lg, ai, rg, gr>>
notLeague == <<matchVars, routerVars, ledgerVars, net, slipScan, ai, rg, gr>>
notAssistant == <<matchVars, routerVars, ledgerVars, net, slipScan, lg, rg, gr>>
notRegistry == <<matchVars, routerVars, ledgerVars, net, slipScan, lg, ai, gr>>
vars == <<mIn, mPc, mOut, rEnv, rOp, rPc, rOrder, rOpts, rIdx, rTried, rLog, rRet,
          bets, nextId, ui, g, net, slipScan, lg, ai, rg, gr>>

NoOutput == [proposals |-> <<>>, issues |-> <<>>, matchedCount |-> 0]

Extracted(ticket, legs) == [ticket |-> ticket, bets |-> legs]

NoInput == [openBets |-> <<>>, extracted |-> Extracted(Ticket("OPEN", "OPEN", EMPTY, EMPTY), <<>>),
            opts |-> NoOpts]

\* no buildProposals call is under way
MatchUnused ==
  /\ mIn = NoInput
  /\ mPc = "unused"
  /\ mOut = NoOutput

NoEnv ==
  [GROQ_API_KEY |-> FALSE, CEREBRAS_API_KEY |-> FALSE, MISTRAL_API_KEY |-> FALSE,
   MISTRAL_MODEL_isVision |-> FALSE, HF_TOKEN |-> FALSE, HF_MODEL |-> FALSE]

NoOp == [name |-> "none", strategy |-> "none"]

\* the router's call state before a call
RouterFresh ==
  /\ rOp = NoOp
  /\ rOrder = <<>>
  /\ rOpts = ConsensusOpts
  /\ rIdx = 0
  /\ rTried = <<>>
  /\ rLog = <<>>
  /\ rRet = NoReturn

\* no router call is under way
RouterUnused ==
  /\ rEnv = NoEnv
  /\ rPc = "unused"
  /\ RouterFresh

\* the page after save(), remove() or addToLedger(): which of them ran,
\* whether a required field was missing, whether a league came back unresolved,
\* whether the form held status FINAL with result OPEN, whether an error is
\* shown, whether the statement was sent
Shown(op, missing, unresolved, finalOpen, err, sent) ==
  [op |-> op, missing |-> missing, unresolved |-> unresolved, finalOpen |-> finalOpen,
   failed |-> err # "", sent |-> sent, rows |-> <<>>]

Ui(f, resolution, err, sent) ==
  Shown("save", f.date = 0 \/ \E t \in {f.capper, f.league, f.market, f.play} : trim(t) = <<>>,
        ~resolution.resolved /\ ~resolution.threw,
        f.status = "FINAL" /\ f.result = "OPEN", err, sent)

\* rows is the review list addToLedger() was invoked with
ScannerUi(rows, resolutions, err, sent) ==
  [Shown("addToLedger",
         \E i \in DOMAIN rows :
            rows[i].date = 0 \/ \E t \in {rows[i].capper, rows[i].league, rows[i].market, rows[i].play} : trim(t) = <<>>,
         \E i \in DOMAIN resolutions : ~resolutions[i].resolved /\ ~resolutions[i].threw,
         FALSE, err, sent) EXCEPT !.rows = rows]

NoUi == Shown("none", FALSE, FALSE, FALSE, "", FALSE)

NoGradeRequest == GradeRequest("", FALSE, FALSE, EMPTY, EMPTY)

IdleGrade ==
  [pc |-> "idle", req |-> NoGradeRequest, openBets |-> <<>>,
   extracted |-> Extracted(Ticket("OPEN", "OPEN", EMPTY, EMPTY), <<>>), proposals |-> <<>>,
   issues |-> <<>>, idx |-> 0, writes |-> <<>>, response |-> NoResponse, races |-> 0]

\* a page operation is let in: while a grading request is under way at most
\* MaxRaces of them are, and none between its response and its delivery
Raced ==
  /\ g.pc # "responded"
  /\ g.pc # "idle" => g.races < MaxRaces
  /\ g' = IF g.pc = "idle" THEN g ELSE [g EXCEPT !.races = @ + 1]

\* no ledger operation is under way
LedgerUnused ==
  /\ bets = {}
  /\ nextId = 0
  /\ ui = NoUi
  /\ g = IdleGrade

\* no netUnits call is under way
NetUnused == net = [pc |-> "unused", bet |-> Stake("OPEN", "OPEN", NaN, NaN), value |-> Num(0)]

\* the scan endpoint before a request
IdleScan(e) ==
  [pc |-> "idle", env |-> e, req |-> ScanRequest("", FALSE, Upload(FALSE, <<>>, 0)),
   providers |-> <<>>, idx |-> 0, failures |-> <<>>, chosen |-> NoExtraction, chosenIdx |-> 0,
   issues |-> <<>>, authCalls |-> 0, called |-> <<>>, answers |-> <<>>, tableOps |-> <<>>,
   response |-> ScanError(0, "")]

NoVisionEnv == [n \in {"mistral", "groq", "hf", "cerebras"} |-> FALSE]

\* no scan request is under way
ScanUnused == slipScan = [IdleScan(NoVisionEnv) EXCEPT !.pc = "unused"]

\* a request of the league resolve endpoint: where it stands, what it
\* asked, the registry it read, when it issued its fetch of the index
IdleResolve ==
  [pc |-> "idle", req |-> ResolveRequest("", <<>>), reg |-> <<>>, issuedAt |-> 0, authCalls |-> 0,
   reads |-> 0, response |-> ResolveResponse(0, "", <<>>)]

\* no league resolve request is under way
LeagueUnused ==
  lg = [now |-> 0, cache |-> NoCache, registry |-> <<>>, fetches |-> <<>>, p |-> <<>>]

\* the assistant endpoint before a request
IdleAssistant ==
  [pc |-> "idle", req |-> AiRequest("", <<>>, "fast", FALSE, NULL), authCalls |-> 0, reads |-> 0,
   calls |-> <<>>, bets |-> <<>>, primaryRaw |-> NULL, altRaw |-> NULL, verifierRaw |-> NULL,
   primaryJson |-> UndefinedJson, primaryValid |-> NotValidated, response |-> AiError(0, "")]

\* no assistant request is under way
AssistantUnused == ai = [IdleAssistant EXCEPT !.pc = "unused"]

\* a request of the league register or league list endpoint before it arrives
IdleRegistrar ==
  [pc |-> "idle", op |-> "none", req |-> RegisterRequest("", <<>>, <<>>, <<>>), sb |-> <<>>,
   meta |-> NoScoreboard, merged |-> <<>>, authCalls |-> 0, fetched |-> <<>>, reads |-> 0,
   writes |-> 0, response |-> RegistryError(0, "")]

\* no league register or league list request is under way
RegistryUnused == rg = [table |-> {}, p |-> <<>>]

\* no grading requests run side by side
RaceUnused == gr = <<>>

\* only the named group of operations is in use
OnlySlip == MatchUnused /\ RouterUnused /\ NetUnused /\ LeagueUnused /\ AssistantUnused /\ RegistryUnused /\ RaceUnused
OnlyMatch == RouterUnused /\ LedgerUnused /\ NetUnused /\ ScanUnused /\ LeagueUnused /\ AssistantUnused /\ RegistryUnused /\ RaceUnused
OnlyRouter == MatchUnused /\ LedgerUnused /\ NetUnused /\ ScanUnused /\ LeagueUnused /\ AssistantUnused /\ RegistryUnused /\ RaceUnused
OnlyLedger == MatchUnused /\ RouterUnused /\ NetUnused /\ ScanUnused /\ LeagueUnused /\ AssistantUnused /\ RegistryUnused /\ RaceUnused
OnlyNet == MatchUnused /\ RouterUnused /\ LedgerUnused /\ ScanUnused /\ LeagueUnused /\ AssistantUnused /\ RegistryUnused /\ RaceUnused
OnlyScan == MatchUnused /\ RouterUnused /\ LedgerUnused /\ NetUnused /\ LeagueUnused /\ AssistantUnused /\ RegistryUnused /\ RaceUnused
OnlyLeague == MatchUnused /\ RouterUnused /\ LedgerUnused /\ NetUnused /\ ScanUnused /\ AssistantUnused /\ RegistryUnused /\ RaceUnused
OnlyAssistant == MatchUnused /\ RouterUnused /\ LedgerUnused /\ NetUnused /\ ScanUnused /\ LeagueUnused /\ RegistryUnused /\ RaceUnused
OnlyRegistry == MatchUnused /\ RouterUnused /\ LedgerUnused /\ NetUnused /\ ScanUnused /\ LeagueUnused /\ AssistantUnused /\ RaceUnused
OnlyRace == MatchUnused /\ RouterUnused /\ NetUnused /\ ScanUnused /\ LeagueUnused /\ AssistantUnused /\ RegistryUnused

(***************************************************************************)
(* The leg matcher on its own: one call of buildProposals per behaviour    *)
(***************************************************************************)
MatchInputs ==
  { [openBets |-> rows, extracted |-> Extracted(req.ticket, legs), opts |-> req.opts] :
      rows \in DistinctSeqs(RowPool, MaxCand),
      legs \in SeqsUpTo(LegPool, MaxLegs),
      req \in RequestPool }

MatchInit ==
  /\ mIn \in MatchInputs
  /\ mPc = "input"
  /\ mOut = NoOutput
  /\ OnlyMatch

\* one call of buildProposals(openBets, extracted, opts)
Build ==
  /\ mPc = "input"
  /\ mOut' = buildProposals(mIn.openBets, mIn.extracted, mIn.opts)
  /\ mPc' = "built"
  /\ UNCHANGED mIn
  /\ UNCHANGED notMatch

MatchNext == Build

SpecMatch == MatchInit /\ [][MatchNext]_vars

(***************************************************************************)
(* The provider router: one call of runPrimary, runVerifier or             *)
(* runConsensus per behaviour, the providers answering as they like        *)
(***************************************************************************)
Strategies == {"fast", "balanced"}

RouterInit ==
  /\ OnlyRouter
  /\ rEnv \in Envs
  /\ rPc = "idle"
  /\ RouterFresh

\* the log with the outcome of its k-th call filled in
settled(log, k, out) == [log EXCEPT ![k].out = out]

inFlight(log) == {k \in DOMAIN log : log[k].out = Pending}

\* tryInOrder's loop from item i on: the next configured provider is called,
\* and with none left the function throws
TryInOrderFrom(order, i, tried, log, opts) ==
  LET j == nextConfigured(order, i)
  IN  /\ rOrder' = order
      /\ rOpts' = opts
      /\ rTried' = tried
      /\ IF j # 0
         THEN /\ rIdx' = j
              /\ rLog' = Append(log, Call(order[j].name, opts))
              /\ rPc' = "tryInOrder"
              /\ rRet' = NoReturn
         ELSE /\ rIdx' = Len(order) + 1
              /\ rLog' = log
              /\ rPc' = "done"
              /\ rRet' = IF tried = <<>> THEN Throw(NoTextProvidersMsg, tried)
                         ELSE Throw(AllFailedMsg, tried)

runPrimary(strategy) ==
  /\ rPc = "idle"
  /\ rOp' = [name |-> "runPrimary", strategy |-> strategy]
  /\ TryInOrderFrom(PrimaryOrder(getProviderConfigs(rEnv), strategy), 1, <<>>, rLog,
                    PrimaryOpts(strategy))
  /\ UNCHANGED <<rEnv, notRouter>>

runVerifier ==
  /\ rPc = "idle"
  /\ rOp' = [name |-> "runVerifier", strategy |-> "none"]
  /\ TryInOrderFrom(VerifierOrder(getProviderConfigs(rEnv)), 1, <<>>, rLog, VerifierOpts)
  /\ UNCHANGED <<rEnv, notRouter>>

\* the awaited call of tryInOrder settles: its text is returned, or its
\* failure is recorded and the loop goes on
SettleInOrder ==
  /\ rPc = "tryInOrder"
  /\ \E resp \in Responses :
       LET out == chatCompletion(resp)
           log == settled(rLog, Len(rLog), out)
       IN  IF out.status = "fulfilled"
           THEN /\ rLog' = log
                /\ rPc' = "done"
                /\ rRet' = IF rOp.name = "runConsensus" THEN ReturnPair(out.value, NULL)
                           ELSE ReturnText(out.value)
                /\ UNCHANGED <<rOrder, rOpts, rIdx, rTried>>
           ELSE TryInOrderFrom(rOrder, rIdx + 1,
                               pushTried(rTried, rOrder[rIdx].name, out.reason), log, rOpts)
  /\ UNCHANGED <<rEnv, rOp, notRouter>>

\* runConsensus up to Promise.allSettled: the calls to the first two
\* candidates are both issued
runConsensus ==
  /\ rPc = "idle"
  /\ rOp' = [name |-> "runConsensus", strategy |-> "none"]
  /\ LET candidates == ConsensusCandidates(getProviderConfigs(rEnv))
         two == firstTwo(candidates)
     IN  IF candidates = <<>>
         THEN /\ rPc' = "done"
              /\ rRet' = Throw(NoConsensusProvidersMsg, <<>>)
              /\ UNCHANGED <<rOrder, rOpts, rIdx, rTried, rLog>>
         ELSE /\ rPc' = "allSettled"
              /\ rOrder' = two
              /\ rOpts' = ConsensusOpts
              /\ rLog' = [k \in 1..Len(two) |-> Call(two[k].name, ConsensusOpts)]
              /\ UNCHANGED <<rIdx, rTried, rRet>>
  /\ UNCHANGED <<rEnv, notRouter>>

\* the values of the fulfilled ones among the first two calls, in order
okValues(log) ==
  LET isOk(c) == c.out.status = "fulfilled"
      ok == SelectSeq(sliceTo(log, 2), isOk)
  IN  [k \in 1..Len(ok) |-> ok[k].out.value]

\* the search for a second answer from item i of the remaining candidates on
SecondFrom(rem, i, log) ==
  /\ rOrder' = rem
  /\ rOpts' = ConsensusOpts
  /\ rTried' = rTried
  /\ IF i <= Len(rem)
     THEN /\ rIdx' = i
          /\ rLog' = Append(log, Call(rem[i].name, ConsensusOpts))
          /\ rPc' = "second"
          /\ rRet' = NoReturn
     ELSE /\ rIdx' = i
          /\ rLog' = log
          /\ rPc' = "done"
          /\ rRet' = ReturnPair(okValues(log)[1], NULL)

\* one of the parallel calls settles; when both have, runConsensus goes on
SettleParallel ==
  /\ rPc = "allSettled"
  /\ \E k \in inFlight(rLog) : \E resp \in Responses :
       LET log == settled(rLog, k, chatCompletion(resp))
           ok == okValues(log)
           candidates == ConsensusCandidates(getProviderConfigs(rEnv))
       IN  IF inFlight(log) # {}
           THEN /\ rLog' = log
                /\ UNCHANGED <<rPc, rOrder, rOpts, rIdx, rTried, rRet>>
           ELSE IF Len(ok) >= 2
           THEN /\ rLog' = log
                /\ rPc' = "done"
                /\ rRet' = ReturnPair(ok[1], ok[2])
                /\ UNCHANGED <<rOrder, rOpts, rIdx, rTried>>
           ELSE IF Len(ok) = 1
           THEN SecondFrom(remaining(candidates), 1, log)
           ELSE TryInOrderFrom(fallbackOrder(candidates), 1, <<>>, log, ConsensusOpts)
  /\ UNCHANGED <<rEnv, rOp, notRouter>>

\* the awaited call for a second answer settles
SettleSecond ==
  /\ rPc = "second"
  /\ \E resp \in Responses :
       LET out == chatCompletion(resp)
           log == settled(rLog, Len(rLog), out)
       IN  IF out.status = "fulfilled"
           THEN /\ rLog' = log
                /\ rPc' = "done"
                /\ rRet' = ReturnPair(okValues(log)[1], out.value)
                /\ UNCHANGED <<rOrder, rOpts, rIdx, rTried>>
           ELSE SecondFrom(rOrder, rIdx + 1, log)
  /\ UNCHANGED <<rEnv, rOp, notRouter>>

RouterNext ==
  \/ \E strategy \in Strategies : runPrimary(strategy)
  \/ runVerifier
  \/ runConsensus
  \/ SettleInOrder
  \/ SettleParallel
  \/ SettleSecond

SpecRouter == RouterInit /\ [][RouterNext]_vars

(***************************************************************************)
(* The ledger and its writers: the bets page, the slip scanner and the     *)
(* slip grading endpoint                                                   *)
(***************************************************************************)
StoredRow(id, date, play, market, opponent, status, result, slip_ref, book) ==
  [id |-> id, created |-> id, date |-> date, capper |-> BK, league |-> NBA,
   market |-> market, play |-> play, selection |-> <<>>, opponent |-> opponent,
   odds |-> Num(-110), units |-> Num(2),
   final_score |-> NULL, status |-> status, result |-> result, notes |-> <<>>,
   slip_ref |-> slip_ref, book |-> book]

\* ledgers to start from: every FINAL row has a result
InitialLedgers ==
  { {},
    {StoredRow(1, Today, LakersMoneyLine, ML, Celtics, "OPEN", "OPEN", R1, DK)},
    {StoredRow(1, 1, Lakers, ML, EMPTY, "FINAL", "LOSS", EMPTY, EMPTY)} }

LedgerInit ==
  /\ OnlyLedger
  /\ bets \in InitialLedgers
  /\ nextId = Cardinality(bets) + 1
  /\ ui = NoUi
  /\ g = IdleGrade

KnownIds == 1..(nextId - 1)

\* save() of the bets page, with editingId 0 for a new bet
save(f, editingId, resolution, dbOk) ==
  /\ Raced
  /\ editingId = 0 /\ dbOk => nextId <= MaxRows
  /\ LET payload == savePayload(f, resolution)
         shown(err, sent) == Ui(f, resolution, err, sent)
     IN  IF requiredMissing(f)
         THEN /\ ui' = shown(MissingFieldsMsg, FALSE)
              /\ UNCHANGED <<bets, nextId>>
         ELSE IF resolution.threw
         THEN /\ ui' = shown("", FALSE)
              /\ UNCHANGED <<bets, nextId>>
         ELSE IF ~resolution.resolved
         THEN /\ ui' = shown(LeagueNotStandardMsg, FALSE)
              /\ UNCHANGED <<bets, nextId>>
         ELSE IF saveGuard(f.status, f.result)
         THEN /\ ui' = shown(FinalNeedsResultMsg, FALSE)
              /\ UNCHANGED <<bets, nextId>>
         ELSE IF ~dbOk
         THEN /\ ui' = shown(DbErrorMsg, TRUE)
              /\ UNCHANGED <<bets, nextId>>
         ELSE IF editingId # 0
         THEN /\ bets' = {IF b.id = editingId THEN updatedManual(b, payload) ELSE b : b \in bets}
              /\ ui' = shown("", TRUE)
              /\ UNCHANGED nextId
         ELSE /\ bets' = bets \cup {insertedManual(nextId, payload)}
              /\ nextId' = nextId + 1
              /\ ui' = shown("", TRUE)
  /\ UNCHANGED notLedger

\* remove(id) of the bets page
remove(id, dbOk) ==
  /\ Raced
  /\ IF dbOk
     THEN bets' = {b \in bets : b.id # id}
     ELSE UNCHANGED bets
  /\ ui' = Shown("remove", FALSE, FALSE, FALSE, IF dbOk THEN "" ELSE DbErrorMsg, TRUE)
  /\ UNCHANGED <<nextId, notLedger>>

\* mutant: only the first row of the review list is sent
payloadOf_firstRowOnly(scan, resolutions, firstId) ==
  {scannedRow(firstId, firstId, scan.rows[1], resolutions[1], scan.book, scan.slipRef)}

\* the payload of addToLedger(): one row per row of the review list
payloadOf(scan, resolutions, firstId) ==
  {scannedRow(firstId + i - 1, firstId, scan.rows[i], resolutions[i], scan.book, scan.slipRef) :
     i \in DOMAIN scan.rows}

\* addToLedger() of the slip scanner: all rows in one insert, or none
addToLedger(scan, resolutions, dbOk) ==
  /\ Raced
  /\ nextId + Len(scan.rows) - 1 <= MaxRows
  /\ IF validateRows(scan.rows) # {}
     THEN /\ ui' = ScannerUi(scan.rows, resolutions, MissingFieldsMsg, FALSE)
          /\ UNCHANGED <<bets, nextId>>
     ELSE IF \E i \in DOMAIN resolutions : resolutions[i].threw
     THEN /\ ui' = ScannerUi(scan.rows, resolutions, ResolveFailedMsg, FALSE)
          /\ UNCHANGED <<bets, nextId>>
     ELSE IF \E i \in DOMAIN resolutions : ~resolutions[i].resolved
     THEN /\ ui' = ScannerUi(scan.rows, resolutions, LeagueNotStandardMsg, FALSE)
          /\ UNCHANGED <<bets, nextId>>
     ELSE IF ~dbOk
     THEN /\ ui' = ScannerUi(scan.rows, resolutions, DbErrorMsg, TRUE)
          /\ UNCHANGED <<bets, nextId>>
     ELSE /\ bets' = bets \cup payloadOf(scan, resolutions, nextId)
          /\ nextId' = nextId + Len(scan.rows)
          /\ ui' = ScannerUi(scan.rows, resolutions, "", TRUE)
  /\ UNCHANGED notLedger

Respond(response) ==
  g' = [g EXCEPT !.pc = "responded", !.response = response]

\* POST of the grading endpoint up to the read of the open bets, for the
\* rows the table holds: the states the request can be in after it
gradePosted(req, dbOk, table) ==
  LET slipRef == trim(req.slip_ref)
      book == trim(req.book)
      fresh == [IdleGrade EXCEPT !.req = req]
  IN  IF req.token = ""
      THEN {[fresh EXCEPT !.pc = "responded",
                          !.response = Response(401, "error", "Missing Authorization Bearer token")]}
      ELSE IF req.token # "valid"
      THEN {[fresh EXCEPT !.pc = "responded",
                          !.response = Response(401, "error", "Unauthorized")]}
      ELSE IF ~req.hasFile
      THEN {[fresh EXCEPT !.pc = "responded",
                          !.response = Response(400, "error", "Missing image file")]}
      ELSE IF ~dbOk
      THEN {[fresh EXCEPT !.pc = "responded",
                          !.response = Response(500, "error", DbErrorMsg)]}
      ELSE {[fresh EXCEPT !.pc = "grading", !.openBets = q] :
              q \in selectOrders({b \in table : isOpenMatch(b, slipRef, book)})}

POST(req, dbOk) ==
  /\ g.pc = "idle"
  /\ g' \in gradePosted(req, dbOk, bets)
  /\ UNCHANGED <<bets, nextId, ui, notLedger>>

\* the commit loop from proposal i on: the next update is sent, or the loop
\* is over and the commit is answered
CommitFrom(st, i) ==
  LET j == nextExisting(st.proposals, st.openBets, i)
  IN  IF j # 0
      THEN [st EXCEPT !.pc = "commit", !.idx = j]
      ELSE [st EXCEPT !.pc = "responded", !.idx = Len(st.proposals) + 1,
                      !.response = [Response(200, "commit", "") EXCEPT
                                      !.proposals_count = Len(st.proposals),
                                      !.updated_bet_ids =
                                         LET done(w) == w.outcome # "error"
                                             ok == SelectSeq(st.writes, done)
                                         IN  [k \in DOMAIN ok |-> ok[k].bet_id]]]

\* the vision model fails: the request ends with its error
GradeFailed ==
  /\ g.pc = "grading"
  /\ Respond(Response(500, "error", "All vision providers failed"))
  /\ UNCHANGED <<bets, nextId, ui, notLedger>>

\* if (!commit || commitBlockedReasons.length) the preview is answered, else
\* the commit loop starts
gated(st, reasons) ==
  IF ~st.req.commit \/ reasons # <<>>
  THEN [st EXCEPT !.pc = "responded",
                  !.response = [Response(200, "preview", "") EXCEPT
                                  !.can_commit = (reasons = <<>>),
                                  !.commit_blocked_reasons = reasons,
                                  !.proposals_count = Len(st.proposals)]]
  ELSE CommitFrom(st, 1)

\* the request once buildProposals has returned r
proposed(st, r) ==
  gated([st EXCEPT !.proposals = r.proposals, !.issues = r.issues],
        commitBlockedReasons(r.proposals))

\* the vision model answers: proposals are built and the commit is gated
graded(st, extracted) ==
  proposed([st EXCEPT !.extracted = extracted],
           buildProposals(st.openBets, extracted,
                          [slipRefHint |-> trim(st.req.slip_ref),
                           bookHint |-> trim(st.req.book)]))

Graded(extracted) ==
  /\ g.pc = "grading"
  /\ g' = graded(g, extracted)
  /\ UNCHANGED <<bets, nextId, ui, notLedger>>

Written(bet_id, outcome) == [bet_id |-> bet_id, outcome |-> outcome]

\* mutant: the update is filtered by the id alone
updateHits_byId(table, bet_id) == {b \in table : b.id = bet_id}

\* the rows .eq("id", p.bet_id).eq("status", "OPEN") selects at the write
updateHits(table, bet_id) == {b \in table : b.id = bet_id /\ b.status = "OPEN"}

\* the update of the commit loop reaches the database:
\* update(patch).eq("id", p.bet_id).eq("status", "OPEN"); the request and
\* the table after it
rowUpdated(st, dbOk, table) ==
  LET p == st.proposals[st.idx]
      patch == patchOf(findExisting(st.openBets, p.bet_id), p)
      hit == updateHits(table, p.bet_id)
  IN  IF ~dbOk
      THEN [st |-> [st EXCEPT !.pc = "responded",
                              !.writes = Append(@, Written(p.bet_id, "error")),
                              !.response = Response(500, "error", "Failed updating")],
            table |-> table]
      ELSE [st |-> CommitFrom([st EXCEPT !.writes =
                                 Append(@, Written(p.bet_id,
                                                   IF hit # {} THEN "updated" ELSE "unmatched"))],
                              st.idx + 1),
            table |-> {IF b \in hit THEN patched(b, patch) ELSE b : b \in table}]

Update(dbOk) ==
  /\ g.pc = "commit"
  /\ g' = rowUpdated(g, dbOk, bets).st
  /\ bets' = rowUpdated(g, dbOk, bets).table
  /\ UNCHANGED <<nextId, ui, notLedger>>

\* the response reaches the client and the request is over
Delivered ==
  /\ g.pc = "responded"
  /\ g' = IdleGrade
  /\ UNCHANGED <<bets, nextId, ui, notLedger>>

LedgerNext ==
  \/ \E f \in FormPool, editingId \in {0} \cup KnownIds, resolution \in Resolutions \cup {ResolveThrew},
        dbOk \in BOOLEAN : save(f, editingId, resolution, dbOk)
  \/ \E id \in KnownIds, dbOk \in BOOLEAN : remove(id, dbOk)
  \/ \E scan \in ScanPool, dbOk \in BOOLEAN :
       \E resolutions \in [DOMAIN scan.rows -> Resolutions] \cup {[i \in DOMAIN scan.rows |-> ResolveThrew]} :
          addToLedger(scan, resolutions, dbOk)
  \/ \E req \in GradeRequestPool, dbOk \in BOOLEAN : POST(req, dbOk)
  \/ GradeFailed
  \/ \E extracted \in SlipPool : Graded(extracted)
  \/ \E dbOk \in BOOLEAN : Update(dbOk)
  \/ Delivered

SpecLedger == LedgerInit /\ [][LedgerNext]_vars

(***************************************************************************)
(* netUnits on its own: one call per behaviour                             *)
(***************************************************************************)
NetInit ==
  /\ \E b \in StakePool : net = [pc |-> "input", bet |-> b, value |-> Num(0)]
  /\ OnlyNet

\* one call of netUnits(b)
Net ==
  /\ net.pc = "input"
  /\ net' = [net EXCEPT !.pc = "returned", !.value = netUnits(net.bet)]
  /\ UNCHANGED notNet

NetNext == Net

SpecNet == NetInit /\ [][NetNext]_vars

(***************************************************************************)
(* The slip slipScan endpoint: one POST per behaviour, the vision providers    *)
(* answering as they like                                                  *)
(***************************************************************************)
ScanInit ==
  /\ \E e \in VisionEnvs : slipScan = IdleScan(e)
  /\ OnlyScan

scanEnds(st, response) == [st EXCEPT !.pc = "responded", !.response = response]

\* callVisionProvider(providers[i]) is issued and awaited
awaiting(st, pc, i) ==
  [st EXCEPT !.pc = pc, !.idx = i, !.called = Append(@, st.providers[i])]

\* runExtractionWithFallbacks is entered
extractionStarted(st) ==
  IF st.providers = <<>> THEN scanEnds(st, ScanError(500, "No vision providers configured."))
  ELSE awaiting(st, "extract", 1)

\* mutant: the upload is handed to the providers unchecked
uploadChecked_off(st, file) ==
  IF ~file.isFile THEN scanEnds(st, ScanError(400, "Missing file upload"))
  ELSE extractionStarted([st EXCEPT !.providers = getVisionProviders(st.env)])

\* the checks of the upload, then the extraction
uploadChecked(st, file) ==
  IF ~file.isFile THEN scanEnds(st, ScanError(400, "Missing file upload"))
  ELSE IF file.type = <<>> \/ ~startsWith(file.type, ImagePrefix)
  THEN scanEnds(st, ScanError(400, "Only image uploads are supported for slip slipScan right now."))
  ELSE IF file.size > MaxImageBytes
  THEN scanEnds(st, ScanError(400, "Image is too large."))
  ELSE extractionStarted([st EXCEPT !.providers = getVisionProviders(st.env)])

\* supabase.auth.getUser() has answered
userChecked(st, req) ==
  IF req.token # "valid" THEN scanEnds(st, ScanError(401, "Unauthorized"))
  ELSE uploadChecked(st, req.file)

\* POST up to its first provider call
scanPosted(st, req) ==
  IF req.token = "" THEN scanEnds(st, ScanError(401, "Missing Authorization Bearer token"))
  ELSE IF ~req.supabaseEnv THEN scanEnds(st, ScanError(500, "Missing Supabase env vars"))
  ELSE userChecked([st EXCEPT !.authCalls = @ + 1], req)

ScanPost ==
  /\ slipScan.pc = "idle"
  /\ \E req \in ScanRequestPool : slipScan' = scanPosted([slipScan EXCEPT !.req = req], req)
  /\ UNCHANGED notScan

\* the least index from i on other than skip, 0 if there is none
nextOther(n, i, skip) ==
  IF \E j \in i..n : j # skip THEN CHOOSE j \in i..n : j # skip /\ \A k \in i..(j - 1) : k = skip
  ELSE 0

scanFinished(st, crossCheck) ==
  scanEnds(st, scanResponseOf(finishExtraction(st.chosen, crossCheck, st.issues)))

\* the cross-check loop from index i on
crossCheckFrom(st, i) ==
  IF i = 0 THEN scanFinished(st, NoExtraction) ELSE awaiting(st, "crosscheck", i)

\* a provider of the first loop has succeeded
chosenAs(st, r) ==
  crossCheckFrom([st EXCEPT !.chosen = r, !.chosenIdx = st.idx, !.issues = issuesAfter(r, st.failures)],
                 nextOther(Len(st.providers), 1, st.idx))

\* a provider of the first loop has failed
failedWith(st, r) ==
  IF st.idx < Len(st.providers)
  THEN awaiting([st EXCEPT !.failures = Append(@, r)], "extract", st.idx + 1)
  ELSE scanEnds([st EXCEPT !.failures = Append(@, r)], ScanError(500, "All vision providers failed."))

extractSettled(st, r) == IF r.ok THEN chosenAs(st, r) ELSE failedWith(st, r)

\* the awaited provider of the first loop answers
ExtractSettles ==
  /\ slipScan.pc = "extract"
  /\ \E a \in VisionAnswers :
       slipScan' = extractSettled([slipScan EXCEPT !.answers = Append(@, a)],
                              callVisionProvider(slipScan.providers[slipScan.idx], a))
  /\ UNCHANGED notScan

crossSettled(st, r) ==
  IF r.ok THEN scanFinished(st, r)
  ELSE crossCheckFrom(st, nextOther(Len(st.providers), st.idx + 1, st.chosenIdx))

\* the awaited provider of the cross-check loop answers
CrossCheckSettles ==
  /\ slipScan.pc = "crosscheck"
  /\ \E a \in VisionAnswers :
       slipScan' = crossSettled([slipScan EXCEPT !.answers = Append(@, a)],
                            callVisionProvider(slipScan.providers[slipScan.idx], a))
  /\ UNCHANGED notScan

ScanNext == ScanPost \/ ExtractSettles \/ CrossCheckSettles

SpecScan == ScanInit /\ [][ScanNext]_vars

(***************************************************************************)
(* The league resolve endpoint: MaxResolvers requests on one server        *)
(* instance, the clock advancing between their steps                       *)
(***************************************************************************)
MaxResolvers == 2

\* the instants of the clock: six hours after the start and after that, to
\* the millisecond
Instants == {0, IndexTtl, IndexTtl + 1, 2 * IndexTtl + 1, 2 * IndexTtl + 2}

\* the scoreboards that answer during one request: none, or all
Reachables == {{}, {NbaKey, WnbaKey}}

LeagueInit ==
  /\ \E registry \in RegistryPool, cache \in {NoCache, Cached(0, EspnIndex)} :
       lg = [now |-> 0, cache |-> cache, registry |-> registry, fetches |-> <<>>,
             p |-> [i \in 1..MaxResolvers |-> IdleResolve]]
  /\ OnlyLeague

\* time passes, to a later one of the instants
Tick ==
  /\ \E t \in Instants :
       /\ t > lg.now
       /\ lg' = [lg EXCEPT !.now = t]
  /\ UNCHANGED notLeague

resolveEnds(r, response) == [r EXCEPT !.pc = "responded", !.response = response]

\* POST up to the answer of supabase.auth.getUser()
resolvePosted(r, req) ==
  IF req.token = "" THEN resolveEnds(r, ResolveResponse(401, "Missing Authorization Bearer token", <<>>))
  ELSE IF req.token # "valid"
  THEN resolveEnds([r EXCEPT !.authCalls = @ + 1], ResolveResponse(401, "Unauthorized", <<>>))
  ELSE [r EXCEPT !.authCalls = @ + 1, !.pc = "select"]

ResolvePost(i) ==
  /\ lg.p[i].pc = "idle"
  /\ \E req \in ResolveRequestPool :
       lg' = [lg EXCEPT !.p[i] = resolvePosted([lg.p[i] EXCEPT !.req = req], req)]
  /\ UNCHANGED notLeague

\* the loop over items and the response
resolvedWith(r, espnIndex, reachable) ==
  resolveEnds(r, ResolveResponse(200, "", resolveItems(r.req.items, r.reg, espnIndex, reachable)))

\* the select of league_registry fails
RegistryFailed(i) ==
  /\ lg.p[i].pc = "select"
  /\ lg' = [lg EXCEPT !.p[i] = resolveEnds([@ EXCEPT !.reads = @ + 1], ResolveResponse(500, DbErrorMsg, <<>>))]
  /\ UNCHANGED notLeague

\* the select of league_registry answers; the cache is stale, and the fetch
\* of the index is issued
RegistryLoadedStale(i) ==
  /\ lg.p[i].pc = "select"
  /\ isStale(lg.cache, lg.now)
  /\ lg' = [lg EXCEPT !.p[i] = [@ EXCEPT !.pc = "fetching", !.reg = lg.registry, !.reads = @ + 1,
                                         !.issuedAt = lg.now],
                      !.fetches = Append(@, [by |-> i, at |-> lg.now])]
  /\ UNCHANGED notLeague

\* the select of league_registry answers; the cache is fresh, and the
\* request is answered from it
RegistryLoadedFresh(i) ==
  /\ lg.p[i].pc = "select"
  /\ ~isStale(lg.cache, lg.now)
  /\ \E reachable \in Reachables :
       lg' = [lg EXCEPT !.p[i] = resolvedWith([@ EXCEPT !.reg = lg.registry, !.reads = @ + 1],
                                               lg.cache.data, reachable)]
  /\ UNCHANGED notLeague

\* fetchESPNLeagueIndex settles (a failure is caught as the empty index);
\* the cache is assigned with the time the fetch was issued at
IndexFetched(i) ==
  /\ lg.p[i].pc = "fetching"
  /\ \E data \in {EspnIndex, <<>>}, reachable \in Reachables :
       lg' = [lg EXCEPT !.cache = Cached(lg.p[i].issuedAt, data),
                        !.p[i] = resolvedWith(@, data, reachable)]
  /\ UNCHANGED notLeague

LeagueNext ==
  \/ Tick
  \/ \E i \in 1..MaxResolvers :
       \/ ResolvePost(i)
       \/ RegistryFailed(i)
       \/ RegistryLoadedStale(i)
       \/ RegistryLoadedFresh(i)
       \/ IndexFetched(i)

SpecLeague == LeagueInit /\ [][LeagueNext]_vars

(***************************************************************************)
(* The assistant endpoint: one POST per behaviour, the router's calls      *)
(* returning or throwing as the providers make them                        *)
(***************************************************************************)
AssistantInit ==
  /\ ai = IdleAssistant
  /\ OnlyAssistant

aiEnds(st, response) == [st EXCEPT !.pc = "responded", !.response = response]

betsById(st) == {st.bets[i].id : i \in DOMAIN st.bets}

validated(st, j) == validateAnswerJson(j, betsById(st), computeFacts(st.bets))

\* the end of the try block: the primary answer if it is valid, else 422
aiFinished(st) ==
  IF st.primaryValid.ok THEN aiEnds(st, AiAnswer(st.primaryValid.answer_markdown))
  ELSE aiEnds(st, AiResponse(422, "AI output failed validation", st.primaryValid, NULL))

\* a call of the router is issued and awaited
routerCalled(st, pc, op) == [st EXCEPT !.pc = pc, !.calls = Append(@, op)]

\* the deterministic commands, then the first call of the router
commandChecked(st, p) ==
  IF includes(p, ExportOpen)
  THEN aiEnds(st, AiAnswer(csvAnswer(SelectSeq(st.bets, LAMBDA b : UpperWord(b.status) = "OPEN"))))
  ELSE IF includes(p, ExportAll) THEN aiEnds(st, AiAnswer(csvAnswer(st.bets)))
  ELSE routerCalled(st, "primary", IF st.req.strategy = "consensus" THEN "runConsensus" ELSE "runPrimary")

\* the select on the bets table has answered
betsSelected(st, req) ==
  IF req.rows = NULL THEN aiEnds(st, AiError(500, DbErrorMsg))
  ELSE commandChecked([st EXCEPT !.bets = req.rows], toLowerCase(trim(req.prompt)))

\* supabase.auth.getUser() has answered
aiUserChecked(st, req) ==
  IF req.token # "valid" THEN aiEnds(st, AiError(401, "Unauthorized"))
  ELSE betsSelected([st EXCEPT !.reads = @ + 1], req)

\* POST up to its first call of the router
aiPosted(st, req) ==
  IF req.token = "" THEN aiEnds(st, AiError(401, "Missing Authorization Bearer token"))
  ELSE IF trim(req.prompt) = <<>> THEN aiEnds(st, AiError(400, "Missing prompt"))
  ELSE IF ~req.supabaseEnv THEN aiEnds(st, AiError(500, "Missing Supabase env vars"))
  ELSE aiUserChecked([st EXCEPT !.authCalls = @ + 1], req)

AiPost ==
  /\ ai.pc = "idle"
  /\ \E req \in AiRequestPool : ai' = aiPosted([ai EXCEPT !.req = req], req)
  /\ UNCHANGED notAssistant

\* the verifier pass of the balanced and consensus strategies, or the end
verifierOrEnd(st) ==
  IF st.req.strategy # "fast" THEN routerCalled(st, "verifier", "runVerifier") ELSE aiFinished(st)

\* the second draft of a consensus is taken when the first is not valid and
\* the second is
altTried(st, altJson, altValid) ==
  IF altValid.ok THEN [st EXCEPT !.primaryJson = altJson, !.primaryValid = altValid] ELSE st

primaryValidated(st, primaryJson, primaryValid) ==
  verifierOrEnd(IF ~primaryValid.ok /\ st.altRaw # NULL /\ st.altRaw # <<>>
                THEN altTried([st EXCEPT !.primaryJson = primaryJson, !.primaryValid = primaryValid],
                              safeJsonParseAnswer(st.altRaw).doc,
                              validated(st, safeJsonParseAnswer(st.altRaw).doc))
                ELSE [st EXCEPT !.primaryJson = primaryJson, !.primaryValid = primaryValid])

primaryParsed(st, primaryJson) == primaryValidated(st, primaryJson, validated(st, primaryJson))

primarySettled(st, a, b) ==
  primaryParsed([st EXCEPT !.primaryRaw = a, !.altRaw = b], safeJsonParseAnswer(a).doc)

\* the awaited runPrimary or runConsensus returns its text or texts
PrimaryReturns ==
  /\ ai.pc = "primary"
  /\ \E a \in DraftTexts, b \in DraftTexts \cup {NULL} :
       /\ ai.req.strategy # "consensus" => b = NULL
       /\ ai' = primarySettled(ai, a, b)
  /\ UNCHANGED notAssistant

\* the awaited call of the router throws: the catch answers 500
RouterThrows ==
  /\ ai.pc \in {"primary", "verifier"}
  /\ \E msg \in {NoTextProvidersMsg, AllFailedMsg, NoConsensusProvidersMsg} :
       /\ (msg = NoConsensusProvidersMsg) => ai.calls[Len(ai.calls)] = "runConsensus"
       /\ (msg = NoTextProvidersMsg) => ai.calls[Len(ai.calls)] # "runConsensus"
       /\ ai' = aiEnds(ai, AiError(500, msg))
  /\ UNCHANGED notAssistant

fixedTried(st, fixedValid) ==
  IF fixedValid.ok THEN aiEnds(st, AiAnswer(fixedValid.answer_markdown)) ELSE aiFinished(st)

verifierParsed(st, verifierJson) ==
  IF verifierJson.verdict = Pass /\ st.primaryValid.ok
  THEN aiEnds(st, AiAnswer(st.primaryValid.answer_markdown))
  ELSE IF verifierJson.verdict = Fail /\ verifierJson.fixed.t = "object"
  THEN fixedTried(st, validated(st, verifierJson.fixed))
  ELSE aiFinished(st)

\* the awaited runVerifier returns its text
VerifierReturns ==
  /\ ai.pc = "verifier"
  /\ \E v \in VerdictTexts :
       ai' = verifierParsed([ai EXCEPT !.verifierRaw = v], safeJsonParseAnswer(v))
  /\ UNCHANGED notAssistant

AssistantNext == AiPost \/ PrimaryReturns \/ RouterThrows \/ VerifierReturns

SpecAssistant == AssistantInit /\ [][AssistantNext]_vars

(***************************************************************************)
(* The league register and league list endpoints: up to MaxRegistrars      *)
(* requests of one user at a time on the league_registry table             *)
(***************************************************************************)
MaxRegistrars == 2

RegistryInit ==
  /\ \E table \in {{}, {RegistryRow(Basketball, NbaKey, NBA, Association, <<Hoops>>)}} :
       rg = [table |-> table, p |-> [i \in 1..MaxRegistrars |-> IdleRegistrar]]
  /\ OnlyRegistry

registryEnds(r, response) == [r EXCEPT !.pc = "responded", !.response = response]

\* POST of league register up to its fetch of the scoreboard
registerPosted(r, req, sport_key, league_key) ==
  IF req.token = "" THEN registryEnds(r, RegistryError(401, "Missing Authorization Bearer token"))
  ELSE IF sport_key = <<>> \/ league_key = <<>>
  THEN registryEnds(r, RegistryError(400, "Missing sport_key or league_key"))
  ELSE [r EXCEPT !.pc = "fetch", !.sb = scoreboardUrl(sport_key, league_key),
                 !.fetched = Append(@, scoreboardUrl(sport_key, league_key))]

RegisterPost(i) ==
  /\ rg.p[i].pc = "idle"
  /\ \E req \in RegisterRequestPool :
       rg' = [rg EXCEPT !.p[i] = registerPosted([@ EXCEPT !.op = "register", !.req = req], req,
                                                trim(req.sport_key), trim(req.league_key))]
  /\ UNCHANGED notRegistry

\* the scoreboard fetch settles (a failure is caught as null), then
\* supabase.auth.getUser() answers and the select of the row is issued
scoreboardFetched(r, j) ==
  IF r.req.token # "valid"
  THEN registryEnds([r EXCEPT !.meta = j, !.authCalls = @ + 1], RegistryError(401, "Unauthorized"))
  ELSE [r EXCEPT !.meta = j, !.authCalls = @ + 1, !.pc = "select"]

ScoreboardFetched(i) ==
  /\ rg.p[i].pc = "fetch"
  /\ \E j \in ScoreboardAnswers : rg' = [rg EXCEPT !.p[i] = scoreboardFetched(@, j)]
  /\ UNCHANGED notRegistry

\* the select of the row's aliases answers (an error leaves existing
\* undefined), and the upsert of the merged row is issued
ExistingSelected(i) ==
  /\ rg.p[i].pc = "select"
  /\ \E dbOk \in BOOLEAN :
       rg' = [rg EXCEPT !.p[i] =
                [@ EXCEPT !.pc = "upsert", !.reads = @ + 1,
                          !.merged = mergedAliases(
                                       IF dbOk THEN existingAliases(rg.table, trim(rg.p[i].req.sport_key),
                                                                    trim(rg.p[i].req.league_key))
                                       ELSE <<>>,
                                       cleanAliases(rg.p[i].req.aliases))]]
  /\ UNCHANGED notRegistry

upsertedRow(r) ==
  RegistryRow(trim(r.req.sport_key), trim(r.req.league_key), r.meta.abbreviation, r.meta.name, r.merged)

\* the upsert answers: the row is written and returned, or the error is
\* answered with 500
Upserted(i) ==
  /\ rg.p[i].pc = "upsert"
  /\ \E dbOk \in BOOLEAN :
       IF dbOk
       THEN rg' = [rg EXCEPT !.table = upsert(@, upsertedRow(rg.p[i])),
                             !.p[i] = registryEnds([@ EXCEPT !.writes = @ + 1],
                                                   RegistryResponse(200, "", upsertedRow(rg.p[i]),
                                                                    rg.p[i].sb, {}))]
       ELSE rg' = [rg EXCEPT !.p[i] = registryEnds([@ EXCEPT !.writes = @ + 1],
                                                   RegistryError(500, DbErrorMsg))]
  /\ UNCHANGED notRegistry

\* GET of league list up to its select
listRequested(r, token) ==
  IF token = "" THEN registryEnds(r, RegistryError(401, "Missing Authorization Bearer token"))
  ELSE IF token # "valid"
  THEN registryEnds([r EXCEPT !.authCalls = @ + 1], RegistryError(401, "Unauthorized"))
  ELSE [r EXCEPT !.authCalls = @ + 1, !.pc = "list"]

ListGet(i) ==
  /\ rg.p[i].pc = "idle"
  /\ \E token \in {"", "stale", "valid"} :
       rg' = [rg EXCEPT !.p[i] = listRequested([@ EXCEPT !.op = "list", !.req.token = token], token)]
  /\ UNCHANGED notRegistry

\* the select of the user's rows answers (of their order the model keeps
\* nothing), or fails
ListSelected(i) ==
  /\ rg.p[i].pc = "list"
  /\ \E dbOk \in BOOLEAN :
       rg' = [rg EXCEPT !.p[i] =
                registryEnds([@ EXCEPT !.reads = @ + 1],
                             IF dbOk THEN RegistryResponse(200, "", NoRegistryRow, <<>>, rg.table)
                             ELSE RegistryError(500, DbErrorMsg))]
  /\ UNCHANGED notRegistry

RegistryNext ==
  \E i \in 1..MaxRegistrars :
    \/ RegisterPost(i)
    \/ ScoreboardFetched(i)
    \/ ExistingSelected(i)
    \/ Upserted(i)
    \/ ListGet(i)
    \/ ListSelected(i)

SpecRegistry == RegistryInit /\ [][RegistryNext]_vars

(***************************************************************************)
(* The slip scanner (components/SlipScanner): a scan of the endpoint, then *)
(* addToLedger() on the list the user has reviewed                         *)
(***************************************************************************)
\* the vision settings of the slip scanner's server: two providers
SlipEnv == [n \in {"mistral", "groq", "hf", "cerebras"} |-> n \in {"mistral", "groq"}]

SlipInit ==
  /\ OnlySlip
  /\ slipScan = IdleScan(SlipEnv)
  /\ bets \in InitialLedgers
  /\ nextId = Cardinality(bets) + 1
  /\ ui = NoUi
  /\ g = IdleGrade

\* the scan has answered with rows, the user has edited and removed rows of
\* the review list, and invokes addToLedger() on what it holds now
Reviewed ==
  /\ slipScan.pc = "responded"
  /\ slipScan.response.status = 200
  /\ \E scan \in ScanPool, dbOk \in BOOLEAN :
       \E resolutions \in [DOMAIN scan.rows -> Resolutions] \cup {[i \in DOMAIN scan.rows |-> ResolveThrew]} :
          addToLedger(scan, resolutions, dbOk)

SlipNext == ScanNext \/ Reviewed

SpecSlip == SlipInit /\ [][SlipNext]_vars

(***************************************************************************)
(* Concurrent grading: up to MaxGraders requests of the slip grading       *)
(* endpoint at a time on one bets table, each with its own read of the     *)
(* open bets                                                               *)
(***************************************************************************)
MaxGraders == 2

\* one and two open rows carrying the slip reference R1
RaceLedgers ==
  { {StoredRow(1, Today, LakersMoneyLine, ML, Celtics, "OPEN", "OPEN", R1, DK)},
    {StoredRow(1, Today, LakersMoneyLine, ML, Celtics, "OPEN", "OPEN", R1, DK),
     StoredRow(2, Today, Lakers, ML, EMPTY, "OPEN", "OPEN", R1, DK)} }

RaceRequests ==
  { GradeRequest("valid", TRUE, TRUE, EMPTY, R1),
    GradeRequest("valid", TRUE, FALSE, EMPTY, R1),
    GradeRequest("invalid", TRUE, TRUE, EMPTY, R1) }

\* what the vision model reads off the slips uploaded
RaceSlips ==
  { [ticket |-> Ticket("FINAL", "WIN", R1, EMPTY), bets |-> <<>>],
    [ticket |-> Ticket("FINAL", "LOSS", EMPTY, EMPTY), bets |-> <<>>],
    [ticket |-> OpenTicket, bets |-> <<>>] }

\* the variables no grading request touches
besideRace == <<matchVars, routerVars, nextId, ui, g, net, slipScan, lg, ai, rg>>

RaceInit ==
  /\ OnlyRace
  /\ bets \in RaceLedgers
  /\ nextId = Cardinality(bets) + 1
  /\ ui = NoUi
  /\ g = IdleGrade
  /\ gr = [i \in 1..MaxGraders |-> IdleGrade]

\* request i arrives and reads the open bets
RacePost(i) ==
  /\ gr[i].pc = "idle"
  /\ \E req \in RaceRequests, dbOk \in BOOLEAN :
       \E st \in gradePosted(req, dbOk, bets) : gr' = [gr EXCEPT ![i] = st]
  /\ UNCHANGED <<bets, besideRace>>

\* the vision model of request i fails
RaceGradeFailed(i) ==
  /\ gr[i].pc = "grading"
  /\ gr' = [gr EXCEPT ![i] = [@ EXCEPT !.pc = "responded",
                                       !.response = Response(500, "error", "All vision providers failed")]]
  /\ UNCHANGED <<bets, besideRace>>

\* the vision model of request i answers
RaceGraded(i) ==
  /\ gr[i].pc = "grading"
  /\ \E extracted \in RaceSlips : gr' = [gr EXCEPT ![i] = graded(@, extracted)]
  /\ UNCHANGED <<bets, besideRace>>

\* the update request i awaits reaches the database
RaceUpdate(i) ==
  /\ gr[i].pc = "commit"
  /\ \E dbOk \in BOOLEAN :
       /\ gr' = [gr EXCEPT ![i] = rowUpdated(gr[i], dbOk, bets).st]
       /\ bets' = rowUpdated(gr[i], dbOk, bets).table
  /\ UNCHANGED besideRace

RaceNext ==
  \E i \in 1..MaxGraders :
    \/ RacePost(i)
    \/ RaceGradeFailed(i)
    \/ RaceGraded(i)
    \/ RaceUpdate(i)

SpecRace == RaceInit /\ [][RaceNext]_vars

(***************************************************************************)
(* Vocabulary of the leg-matcher properties, stated on the arguments and   *)
(* the result of the call                                                  *)
(***************************************************************************)
Built == mPc = "built"

\* the slip reference supplied by the caller, else the one detected
GivenSlipRef ==
  IF mIn.opts.slipRefHint # <<>> THEN trim(mIn.opts.slipRefHint)
  ELSE trim(mIn.extracted.ticket.slip_ref)

GivenBook ==
  toLowerCase(IF mIn.opts.bookHint # <<>> THEN trim(mIn.opts.bookHint)
              ELSE trim(mIn.extracted.ticket.book))

SharesSlipRef(b) == b.slip_ref = GivenSlipRef

RowsWithSlipRef == SelectSeq(mIn.openBets, SharesSlipRef)

PoolAfterSlipRef == IF GivenSlipRef # <<>> THEN RowsWithSlipRef ELSE mIn.openBets

SharesBook(b) == includes(toLowerCase(b.book), GivenBook)

\* the candidate rows: narrowed by slip reference, then by book if that leaves any
CandidateRows ==
  IF GivenBook # <<>> /\ SelectSeq(PoolAfterSlipRef, SharesBook) # <<>>
  THEN SelectSeq(PoolAfterSlipRef, SharesBook)
  ELSE PoolAfterSlipRef

IdsOf(rows) == [i \in 1..Len(rows) |-> rows[i].id]

BetIdsOf(props) == [i \in 1..Len(props) |-> props[i].bet_id]

TicketSettled ==
  /\ mIn.extracted.ticket.ticket_status = "FINAL"
  /\ mIn.extracted.ticket.ticket_result \in Settled

IsGradedLeg(leg) == isVisibleLeg(leg) /\ leg.result \in Settled

IsLegProposal(p) == p.match_reason = "Fuzzy leg match"

IsUnmatchedIssue(x) == x.msg = UnmatchedLegMsg

\* C7: with a slip reference present, every proposal is for a row whose
\* slip_ref equals it; if no open row has it, the call returns no proposal and
\* exactly the no-match diagnostic (nothing is matched against other rows).
C7_SlipRefIsExactKey ==
  (Built /\ GivenSlipRef # <<>>) =>
     /\ \A i \in 1..Len(mOut.proposals) :
          \E j \in 1..Len(mIn.openBets) :
             /\ mIn.openBets[j].id = mOut.proposals[i].bet_id
             /\ mIn.openBets[j].slip_ref = GivenSlipRef
     /\ RowsWithSlipRef = <<>> =>
          /\ mOut.proposals = <<>>
          /\ mOut.issues = <<Issue(NoOpenBetsMsg, GivenSlipRef)>>
          /\ mOut.matchedCount = 0

\* a settled ticket with visible legs, a slip reference no open row carries,
\* and other open rows that the legs would match
C7_Witness ==
  /\ Built
  /\ GivenSlipRef = R3
  /\ Len(mIn.openBets) = MaxCand
  /\ TicketSettled
  /\ \E i \in 1..Len(mIn.extracted.bets) : IsGradedLeg(mIn.extracted.bets[i])
  /\ mOut.proposals = <<>>
  /\ Len(mOut.issues) = 1

\* C8: a settled ticket (FINAL, result not OPEN) with candidates left yields
\* one proposal per candidate row, in order, and no other; each sets FINAL and
\* the ticket result, with confidence 0.99 by slip reference and 0.7
\* otherwise; no leg is matched.
C8_TicketLevelSettlement ==
  (Built /\ TicketSettled /\ CandidateRows # <<>>) =>
     /\ BetIdsOf(mOut.proposals) = IdsOf(CandidateRows)
     /\ mOut.matchedCount = Len(CandidateRows)
     /\ \A i \in 1..Len(mOut.proposals) :
          /\ mOut.proposals[i].after.status = "FINAL"
          /\ mOut.proposals[i].after.result = mIn.extracted.ticket.ticket_result
          /\ mOut.proposals[i].confidence =
               (IF GivenSlipRef # <<>> THEN SlipRefConfidence ELSE FuzzyTicketConfidence)
          /\ ~IsLegProposal(mOut.proposals[i])
     /\ \A i \in 1..Len(mOut.issues) : ~IsUnmatchedIssue(mOut.issues[i])

\* a settled ticket without slip reference, several candidates, settled legs
C8_Witness ==
  /\ Built
  /\ TicketSettled
  /\ GivenSlipRef = <<>>
  /\ Len(CandidateRows) = MaxCand
  /\ Len(mIn.openBets) = MaxCand
  /\ \E i \in 1..Len(mIn.extracted.bets) :
        isVisibleLeg(mIn.extracted.bets[i]) /\ mIn.extracted.bets[i].result \in Settled
  /\ Len(mOut.proposals) = MaxCand
  /\ mOut.proposals[1].confidence = FuzzyTicketConfidence

CombinedLeg(leg) == Join4(leg.play, leg.selection, leg.market, leg.opponent)
CombinedRow(b) == Join4(b.play, b.market, b.selection, b.opponent)

\* 0.65*overlap(combined) + 0.2*overlap(opponent) + 0.15*overlap(market)
BlendedScore(leg, b) ==
  LET c == overlapScore(CombinedLeg(leg), CombinedRow(b))
      o == overlapScore(leg.opponent, b.opponent)
      m == overlapScore(leg.market, b.market)
  IN  << 65 * c[1] * o[2] * m[2] + 20 * o[1] * c[2] * m[2] + 15 * m[1] * c[2] * o[2],
         100 * c[2] * o[2] * m[2] >>

\* the call took the per-leg path
LegMode ==
  /\ Built
  /\ ~(TicketSettled /\ CandidateRows # <<>>)
  /\ ~(GivenSlipRef # <<>> /\ RowsWithSlipRef = <<>>)

\* the visible legs with a result other than OPEN, in order
GradedLegs == SelectSeq(mIn.extracted.bets, IsGradedLeg)

\* the blended scores of the graded legs (first index) against the
\* candidate rows (second index)
ScoreTable ==
  LET legs == GradedLegs
      cands == CandidateRows
  IN  [k \in 1..Len(legs) |-> [i \in 1..Len(cands) |-> BlendedScore(legs[k], cands[i])]]

\* in score table T, row i has the highest blended score for leg k
IsTop(T, k, i) == \A j \in DOMAIN T[k] : ~RatLess(T[k][i], T[k][j])

\* row i is the first of the candidates with the highest blended score
FirstTop(T, k, i) ==
  /\ \A j \in DOMAIN T[k] : j < i => RatLess(T[k][j], T[k][i])
  /\ IsTop(T, k, i)

AboveFloor(T, k) == \E i \in DOMAIN T[k] : RatLess(<<35, 100>>, T[k][i])

AtLeastFloor(T, k) == \E i \in DOMAIN T[k] : ~RatLess(T[k][i], <<35, 100>>)

\* the proposals are exactly those of the graded legs in `accepted`, in
\* order, each for a row with the highest blended score
LegProposalsAre(T, legs, cands, accepted) ==
  /\ Len(mOut.proposals) = Cardinality(accepted)
  /\ \A k \in accepted :
        LET n == Cardinality({a \in accepted : a <= k})
        IN  /\ n <= Len(mOut.proposals)
            /\ \E i \in DOMAIN T[k] :
                  /\ cands[i].id = mOut.proposals[n].bet_id
                  /\ IsTop(T, k, i)
            /\ mOut.proposals[n].after.result = legs[k].result

\* C9 as claimed: in per-leg matching a leg yields a proposal, for the row
\* with the highest blended score, only if that score strictly exceeds 0.35.
C9_StrictFloor_AsClaimed ==
  LegMode =>
    LET T == ScoreTable
    IN  LegProposalsAre(T, GradedLegs, CandidateRows, {k \in DOMAIN T : AboveFloor(T, k)})

\* C9 amended: in per-leg matching a leg yields a proposal, for the row with
\* the highest blended score, exactly if that score is at least 0.35; a best
\* score below 0.35 yields none.
C9_FloorIsInclusive ==
  LegMode =>
    LET T == ScoreTable
    IN  LegProposalsAre(T, GradedLegs, CandidateRows, {k \in DOMAIN T : AtLeastFloor(T, k)})

\* a leg whose best blended score is exactly 0.35 got its proposal
C9_Witness ==
  /\ LegMode
  /\ Len(GradedLegs) = 1
  /\ AtLeastFloor(ScoreTable, 1) /\ ~AboveFloor(ScoreTable, 1)
  /\ Len(mOut.proposals) = 1
  /\ mOut.proposals[1].confidence = MinLegScore

\* the position, among the proposals, of the one of graded leg k
ProposalIndex(T, k) == Cardinality({a \in 1..k : AtLeastFloor(T, a)})

SameText(leg, b) == CombinedLeg(leg) = CombinedRow(b)

\* C10 as claimed: a leg whose combined text is identical to that of a
\* candidate row scores 1.0 against it and gets that row.
C10_IdenticalTextWins_AsClaimed ==
  LegMode =>
    LET T == ScoreTable
        legs == GradedLegs
        cands == CandidateRows
    IN  \A k \in DOMAIN T : \A i \in DOMAIN T[k] :
          SameText(legs[k], cands[i]) =>
             /\ RatEq(overlapScore(CombinedLeg(legs[k]), CombinedRow(cands[i])), <<1, 1>>)
             /\ AtLeastFloor(T, k)
             /\ ProposalIndex(T, k) <= Len(mOut.proposals)
             /\ mOut.proposals[ProposalIndex(T, k)].bet_id = cands[i].id

\* C10 amended: a leg whose combined text is identical to that of a candidate
\* row and has at least one token scores 1.0 against it, and gets that row
\* unless an earlier candidate's blended score is at least as high or a later
\* one's is higher.
C10_IdenticalTextScoresOne ==
  LegMode =>
    LET T == ScoreTable
        legs == GradedLegs
        cands == CandidateRows
    IN  \A k \in DOMAIN T : \A i \in DOMAIN T[k] :
          (SameText(legs[k], cands[i]) /\ tokenSet(CombinedLeg(legs[k])) # {}) =>
             /\ RatEq(overlapScore(CombinedLeg(legs[k]), CombinedRow(cands[i])), <<1, 1>>)
             /\ AtLeastFloor(T, k)
             /\ ProposalIndex(T, k) <= Len(mOut.proposals)
             /\ (mOut.proposals[ProposalIndex(T, k)].bet_id = cands[i].id) <=> FirstTop(T, k, i)

\* a leg with the text of the first candidate, a second candidate with the
\* same blended score, and the first one selected
C10_Witness ==
  /\ LegMode
  /\ Len(GradedLegs) >= 1
  /\ Len(CandidateRows) = MaxCand
  /\ SameText(GradedLegs[1], CandidateRows[1])
  /\ tokenSet(CombinedLeg(GradedLegs[1])) # {}
  /\ RatEq(ScoreTable[1][1], ScoreTable[1][2])
  /\ Len(mOut.proposals) >= 1
  /\ mOut.proposals[1].bet_id = CandidateRows[1].id

\* the unmatched-leg diagnostics of the call, in order
UnmatchedIssues == SelectSeq(mOut.issues, IsUnmatchedIssue)

\* the graded legs of score table T with no candidate row at 0.35 or more
UnmatchedLegs(T) == {k \in DOMAIN T : ~AtLeastFloor(T, k)}

\* how a diagnostic names a leg: its play, else its selection, else "unknown"
LegLabel(leg) ==
  IF leg.play # <<>> THEN leg.play
  ELSE IF leg.selection # <<>> THEN leg.selection
  ELSE Unknown

\* the unmatched-leg diagnostics are exactly one per unmatched leg, in order
UnmatchedAre(T, legs) ==
  /\ Len(UnmatchedIssues) = Cardinality(UnmatchedLegs(T))
  /\ \A k \in UnmatchedLegs(T) :
        LET n == Cardinality({a \in UnmatchedLegs(T) : a <= k})
        IN  /\ n <= Len(UnmatchedIssues)
            /\ UnmatchedIssues[n].arg = LegLabel(legs[k])

\* C11 as claimed: every visible leg with a result other than OPEN whose best
\* candidate score is below 0.35, or that has no candidate row, gets no
\* proposal and exactly one unmatched-leg diagnostic, whatever path the call
\* takes.
C11_UnmatchedLegDiagnosed_AsClaimed ==
  Built => UnmatchedAre(ScoreTable, GradedLegs)

\* C11 amended: in per-leg matching (no slip-level settlement, and not the
\* early return for a slip reference no open row carries) every such leg gets
\* no proposal and exactly one unmatched-leg diagnostic, and every other
\* graded leg still gets its proposal.
C11_UnmatchedLegDiagnosedInLegMode ==
  LegMode =>
    /\ UnmatchedAre(ScoreTable, GradedLegs)
    /\ LegProposalsAre(ScoreTable, GradedLegs, CandidateRows,
                       DOMAIN ScoreTable \ UnmatchedLegs(ScoreTable))
    /\ \A i \in 1..Len(mOut.proposals) : IsLegProposal(mOut.proposals[i])

\* a first leg whose best score is below the floor but not zero got its
\* diagnostic, and the leg after it got its proposal
C11_Witness ==
  /\ LegMode
  /\ Len(GradedLegs) = 2
  /\ CandidateRows # <<>>
  /\ UnmatchedLegs(ScoreTable) = {1}
  /\ \E i \in DOMAIN ScoreTable[1] : RatLess(<<0, 1>>, ScoreTable[1][i])
  /\ Len(UnmatchedIssues) = 1
  /\ Len(mOut.proposals) = 1

(***************************************************************************)
(* Vocabulary of the router properties, stated on the environment, the     *)
(* log of provider calls and the outcome of the operation                  *)
(***************************************************************************)
Priority == <<"groq", "cerebras", "mistral", "hf">>

VerifierPriority == <<"mistral", "groq", "cerebras", "hf">>

\* the provider has what it needs in the environment
HasConfig(name) ==
  CASE name = "groq" -> rEnv.GROQ_API_KEY
    [] name = "cerebras" -> rEnv.CEREBRAS_API_KEY
    [] name = "mistral" -> rEnv.MISTRAL_API_KEY /\ ~rEnv.MISTRAL_MODEL_isVision
    [] name = "hf" -> rEnv.HF_TOKEN /\ rEnv.HF_MODEL

ConfiguredByPriority == SelectSeq(Priority, HasConfig)

CalledNames == [k \in DOMAIN rLog |-> rLog[k].name]

IsPrefixOf(p, q) == Len(p) <= Len(q) /\ p = SubSeq(q, 1, Len(p))

Failed(k) == rLog[k].out.status = "rejected"

Succeeded(k) == rLog[k].out.status = "fulfilled"

InFlight(k) == rLog[k].out.status = "pending"

Times(name) == Cardinality({k \in DOMAIN rLog : rLog[k].name = name})

RouterDone == rPc = "done"

\* C3: runPrimary calls the configured providers one at a time in the order
\* groq, cerebras, mistral, hf; a provider is called only after all configured
\* ones before it failed; nothing is called after a success; the text
\* returned is the content of the one call that succeeded.
C3_PrimaryInPriorityOrder ==
  rOp.name = "runPrimary" =>
    /\ IsPrefixOf(CalledNames, ConfiguredByPriority)
    /\ \A k \in DOMAIN rLog : k < Len(rLog) => Failed(k)
    /\ (rRet.kind = "text") <=> (rLog # <<>> /\ Succeeded(Len(rLog)))
    /\ rRet.kind = "text" => (RouterDone /\ rRet.text = rLog[Len(rLog)].out.value)
    /\ rRet.kind # "pair"

\* groq and cerebras failed, mistral answered, hf (configured) was not called
C3_Witness ==
  /\ rOp = [name |-> "runPrimary", strategy |-> "balanced"]
  /\ RouterDone
  /\ Len(ConfiguredByPriority) = 4
  /\ CalledNames = <<"groq", "cerebras", "mistral">>
  /\ Failed(1) /\ Failed(2) /\ Succeeded(3)
  /\ rRet = ReturnText(Answer2)

TriedNames == [k \in DOMAIN rRet.tried |-> rRet.tried[k].name]

\* C4: when every configured provider fails, runPrimary raises, and the
\* message lists one entry per configured provider, in the order tried, each
\* with that provider's failure, and none for an unconfigured provider.
C4_AllFailedIsRaised ==
  (rOp.name = "runPrimary" /\ RouterDone) =>
    /\ (\A k \in DOMAIN rLog : Failed(k)) <=> (rRet.kind = "throw")
    /\ rRet.kind = "throw" =>
         /\ TriedNames = ConfiguredByPriority
         /\ CalledNames = ConfiguredByPriority
         /\ \A k \in DOMAIN rRet.tried : rRet.tried[k].message = rLog[k].out.reason
         /\ ConfiguredByPriority # <<>> => rRet.error = AllFailedMsg

\* three configured providers failed in different ways; hf has a token but no
\* model and is not listed
C4_Witness ==
  /\ rOp.name = "runPrimary"
  /\ RouterDone
  /\ rEnv.HF_TOKEN /\ ~rEnv.HF_MODEL
  /\ rRet.kind = "throw"
  /\ TriedNames = <<"groq", "cerebras", "mistral">>
  /\ rRet.tried[1].message # rRet.tried[2].message
  /\ rRet.tried[2].message # rRet.tried[3].message

\* the calls runConsensus starts with: as many as the first two configured
InitialCalls == 1..(IF Len(ConfiguredByPriority) < 2 THEN Len(ConfiguredByPriority) ELSE 2)

InitialOk == {k \in InitialCalls : k \in DOMAIN rLog /\ Succeeded(k)}

LaterCalls == {k \in DOMAIN rLog : k \notin InitialCalls}

LaterNames == [k \in 1..(Len(rLog) - Cardinality(InitialCalls)) |->
                 rLog[k + Cardinality(InitialCalls)].name]

\* the later calls go one at a time: all but the last have failed
LaterSequential == \A k \in LaterCalls : k < Len(rLog) => Failed(k)

\* runConsensus starts calls to the first two configured providers together
ConsensusStartsTwo ==
  /\ \A k \in InitialCalls : k \in DOMAIN rLog /\ rLog[k].name = ConfiguredByPriority[k]
  /\ (\E k \in InitialCalls : InFlight(k)) => Len(rLog) = Cardinality(InitialCalls)

\* both succeeded: both texts, a from the higher-priority provider
ConsensusBothOk ==
  (RouterDone /\ Cardinality(InitialOk) = 2) =>
     /\ rRet = ReturnPair(rLog[1].out.value, rLog[2].out.value)
     /\ LaterCalls = {}

\* both failed: sequential fallback, first success in a with b null
ConsensusFallback ==
  (RouterDone /\ ConfiguredByPriority # <<>> /\ InitialOk = {}) =>
     /\ LaterCalls # {}
     /\ LaterSequential
     /\ IF Succeeded(Len(rLog))
        THEN rRet = ReturnPair(rLog[Len(rLog)].out.value, NULL)
        ELSE rRet.kind = "throw"

\* C5 as claimed: two parallel calls; both succeed: both texts; exactly one
\* succeeds: that text with the other slot null and no further provider call;
\* both fail: sequential fallback.
C5_OneSuccessNoFurtherCall_AsClaimed ==
  (rOp.name = "runConsensus" /\ rPc # "idle") =>
    /\ ConsensusStartsTwo
    /\ ConsensusBothOk
    /\ (RouterDone /\ Cardinality(InitialOk) = 1) =>
          /\ rRet = ReturnPair(rLog[CHOOSE k \in InitialOk : TRUE].out.value, NULL)
          /\ LaterCalls = {}
    /\ Cardinality(InitialOk) = 1 => LaterCalls = {}
    /\ ConsensusFallback

\* C5 amended: as claimed, except that after exactly one success the
\* remaining configured providers (after the first two) are called one at a
\* time in priority order until one succeeds: its text fills slot b, and b is
\* null only if there is none or all of them fail.
C5_OneSuccessSeeksSecond ==
  (rOp.name = "runConsensus" /\ rPc # "idle") =>
    /\ ConsensusStartsTwo
    /\ ConsensusBothOk
    /\ Cardinality(InitialOk) = 1 =>
          /\ IsPrefixOf(CalledNames, ConfiguredByPriority)
          /\ LaterSequential
    /\ (RouterDone /\ Cardinality(InitialOk) = 1) =>
          LET a == rLog[CHOOSE k \in InitialOk : TRUE].out.value
          IN  IF LaterCalls # {} /\ Succeeded(Len(rLog))
              THEN rRet = ReturnPair(a, rLog[Len(rLog)].out.value)
              ELSE /\ rRet = ReturnPair(a, NULL)
                   /\ CalledNames = ConfiguredByPriority
    /\ ConsensusFallback

\* groq answered, cerebras failed, mistral was then asked and failed, hf
\* answered and fills slot b
C5_Witness ==
  /\ rOp.name = "runConsensus"
  /\ RouterDone
  /\ CalledNames = <<"groq", "cerebras", "mistral", "hf">>
  /\ Succeeded(1) /\ Failed(2) /\ Failed(3) /\ Succeeded(4)
  /\ rRet = ReturnPair(Answer1, Answer2)

\* C6 as claimed: within one router call each provider is attempted at most
\* once, also in the fallback of runConsensus.
C6_AtMostOnce_AsClaimed ==
  rOp.name \in {"runPrimary", "runVerifier", "runConsensus"} =>
    \A name \in Providers : Times(name) <= 1

\* the parallel attempts of runConsensus have all failed
InitialAllFailed ==
  /\ InitialCalls # {}
  /\ \A k \in InitialCalls : k \in DOMAIN rLog /\ Failed(k)

\* C6 amended: in runPrimary and runVerifier each provider is attempted at
\* most once; in runConsensus at most twice, and a second time only for the
\* first two configured providers in the sequential fallback after the
\* parallel attempts all failed, which starts over with the first of them.
C6_AtMostOnceOutsideFallback ==
  /\ rOp.name \in {"runPrimary", "runVerifier"} =>
       \A name \in Providers : Times(name) <= 1
  /\ rOp.name = "runConsensus" =>
       /\ \A name \in Providers :
            /\ Times(name) <= 2
            /\ Times(name) = 2 =>
                 /\ InitialAllFailed
                 /\ \E k \in InitialCalls : rLog[k].name = name
       /\ InitialAllFailed =>
            /\ IsPrefixOf(LaterNames, ConfiguredByPriority)
            /\ LaterNames # <<>>

\* both parallel attempts failed and the fallback called both providers again
C6_Witness ==
  /\ rOp.name = "runConsensus"
  /\ RouterDone
  /\ CalledNames = <<"groq", "cerebras", "groq", "cerebras", "mistral">>
  /\ Failed(1) /\ Failed(2) /\ Failed(3) /\ Failed(4) /\ Succeeded(5)
  /\ rRet = ReturnPair(rLog[5].out.value, NULL)

(***************************************************************************)
(* Vocabulary of the ledger properties                                     *)
(***************************************************************************)
\* every FINAL row of the table has a settled result
FinalRowsSettled == \A b \in bets : b.status = "FINAL" => b.result \in Settled

\* the last save() was submitted with status FINAL and result OPEN
SavedFinalOpen == ui.finalOpen

\* the last save() sent an insert or an update to the database
SaveWrote == ui.sent

\* the update statements the grading request has sent so far
UpdatesSent == Len(g.writes)

\* the rows the grading request has changed so far
RowsUpdated == {k \in DOMAIN g.writes : g.writes[k].outcome = "updated"}

Confident(p) == p.confidence >= CommitFloor

\* the commit flag is set, there is a proposal, and all are confident
CommitAllowed ==
  /\ g.req.commit
  /\ g.proposals # <<>>
  /\ \A i \in DOMAIN g.proposals : Confident(g.proposals[i])

GradeResponded == g.pc = "responded"

\* the reasons a preview must list for the proposals of the request
ExpectedReasons ==
  (IF g.proposals = <<>> THEN <<Reason(NoProposalsMsg, 0)>> ELSE <<>>)
    \o (IF \E i \in DOMAIN g.proposals : ~Confident(g.proposals[i])
        THEN <<Reason(LowConfidenceMsg,
                      Cardinality({i \in DOMAIN g.proposals : ~Confident(g.proposals[i])}))>>
        ELSE <<>>)

\* five proposals, exactly one of them at 0.74
FiveWithOneAt74 ==
  /\ Len(g.proposals) = 5
  /\ Cardinality({i \in DOMAIN g.proposals : g.proposals[i].confidence = 74}) = 1

\* a step of the grading request (page operations only count in g.races)
GradeStep == [g' EXCEPT !.races = g.races] # g

\* C1: every row with status FINAL has a result in {WIN, LOSS, PUSH, VOID,
\* CASHOUT} after any sequence of manual saves (create or edit), scanner
\* inserts, slip-grade commits and deletes, and a manual save submitted with
\* status FINAL and result OPEN sends no statement to the database.
C1_FinalHasResult ==
  /\ FinalRowsSettled
  /\ SavedFinalOpen => ~SaveWrote

\* a save with FINAL and OPEN was refused while a slip-grade commit had made
\* a row FINAL, next to a row the scanner inserted
C1_Witness ==
  /\ SavedFinalOpen /\ ui.failed /\ ~SaveWrote
  /\ RowsUpdated # {}
  /\ \E b \in bets : b.status = "FINAL" /\ b.notes # <<>>
  /\ \E b \in bets : b.status = "OPEN" /\ b.market = Parlay

\* C2: the grading request sends updates to the bets table if and only if
\* commit is true, there is at least one proposal and every proposal has
\* confidence >= 0.75; otherwise no row is written and the preview lists the
\* blocking reasons; with five proposals of which exactly one is at 0.74 and
\* commit true there is no write and the one reason is the low-confidence one.
C2_CommitGate ==
  /\ [](/\ UpdatesSent > 0 => CommitAllowed
        /\ (GradeResponded /\ CommitAllowed) =>
             /\ UpdatesSent > 0
             /\ g.response.mode = "commit" \/ g.response.status = 500
        /\ (GradeResponded /\ g.response.mode = "preview") =>
             /\ UpdatesSent = 0
             /\ g.response.commit_blocked_reasons = ExpectedReasons
             /\ g.response.can_commit = (ExpectedReasons = <<>>)
        /\ (GradeResponded /\ g.req.commit /\ FiveWithOneAt74) =>
             /\ UpdatesSent = 0
             /\ g.response.mode = "preview"
             /\ Len(g.response.commit_blocked_reasons) = 1
             /\ g.response.commit_blocked_reasons[1].msg = LowConfidenceMsg)
  /\ [][(GradeStep /\ bets' # bets) =>
          (CommitAllowed /\ Len(g'.writes) = UpdatesSent + 1)]_vars

\* commit was asked for five proposals, one of them at 0.74: a preview with
\* the one low-confidence reason, and nothing written
C2_Witness ==
  /\ GradeResponded
  /\ g.req.commit
  /\ FiveWithOneAt74
  /\ \A i \in DOMAIN g.proposals : g.proposals[i].confidence \in {74, 100}
  /\ UpdatesSent = 0
  /\ g.response.commit_blocked_reasons = <<Reason(LowConfidenceMsg, 1)>>

\* the request is a commit with slip reference R1, the select found exactly
\* one OPEN row carrying R1 (odds -110, units 2), and the extraction is a
\* ticket FINAL and WIN
OneBetScenario ==
  /\ g.req.commit
  /\ trim(g.req.slip_ref) = R1
  /\ Len(g.openBets) = 1
  /\ g.openBets[1].slip_ref = R1
  /\ g.openBets[1].odds = Num(-110)
  /\ g.openBets[1].units = Num(2)
  /\ g.extracted.ticket.ticket_status = "FINAL"
  /\ g.extracted.ticket.ticket_result = "WIN"

\* the rows of the table with the id of the one row the select found
ScenarioRows == {b \in bets : b.id = g.openBets[1].id}

\* the row the update statement of the step about to be taken is aimed at
TargetId == g.proposals[g.idx].bet_id

\* C13: in commit mode with slip reference R, one OPEN bet carrying R (odds
\* -110, units 2) and an extraction FINAL and WIN, exactly one update is sent,
\* for that row; when no page operation intervened the row is FINAL and WIN
\* and its net units are 2*(100/110); and no update changes any other row.
C13_EndToEndCommit ==
  /\ []((GradeResponded /\ g.response.mode = "commit" /\ OneBetScenario) =>
          /\ g.writes = <<Written(g.openBets[1].id, g.writes[1].outcome)>>
          /\ g.response.updated_bet_ids = <<g.openBets[1].id>>
          /\ g.races = 0 =>
               /\ g.writes[1].outcome = "updated"
               /\ \A b \in ScenarioRows :
                     /\ b.status = "FINAL"
                     /\ b.result = "WIN"
                     /\ RatEq(netUnits(b), <<200, 110>>)
               /\ Cardinality(ScenarioRows) = 1)
  /\ [][(GradeStep /\ bets' # bets) =>
          /\ g.pc = "commit"
          /\ \A b \in bets : b.id # TargetId => b \in bets'
          /\ \A b \in bets' : b.id # TargetId => b \in bets
          /\ Cardinality(bets') = Cardinality(bets)]_vars

\* the one bet was committed next to an untouched open row: FINAL, WIN and
\* 20/11 units
C13_Witness ==
  /\ GradeResponded /\ g.response.mode = "commit" /\ OneBetScenario
  /\ g.races = 0
  /\ Cardinality(bets) = 2
  /\ \E b \in bets : b.id # g.openBets[1].id /\ b.status = "OPEN"
  /\ \E b \in ScenarioRows : b.status = "FINAL" /\ RatEq(netUnits(b), <<20, 11>>)

(***************************************************************************)
(* Vocabulary of the net-units properties                                  *)
(***************************************************************************)
NetReturned == net.pc = "returned"

\* the stored units and odds as numbers (a null counts as 0)
StoredUnits == IF net.bet.units[2] = 0 THEN <<0, 1>> ELSE net.bet.units
StoredOdds == IF net.bet.odds[2] = 0 THEN <<0, 1>> ELSE net.bet.odds

PositiveOdds == StoredOdds[1] > 0
NegativeOdds == StoredOdds[1] < 0

\* units * odds / 100 and units * 100 / |odds| as rationals
UnderdogPayout == <<StoredUnits[1] * StoredOdds[1], StoredUnits[2] * StoredOdds[2] * 100>>
FavouritePayout ==
  <<StoredUnits[1] * 100 * StoredOdds[2],
    StoredUnits[2] * (IF StoredOdds[1] < 0 THEN -StoredOdds[1] ELSE StoredOdds[1])>>

IsFinalWith(rs) == net.bet.status = "FINAL" /\ net.bet.result = rs

\* what the claim says of LOSS, PUSH and VOID
SettledOtherwise ==
  /\ IsFinalWith("LOSS") => RatEq(net.value, <<-StoredUnits[1], StoredUnits[2]>>)
  /\ (IsFinalWith("PUSH") \/ IsFinalWith("VOID")) => RatEq(net.value, <<0, 1>>)

\* C12 as claimed: a FINAL WIN nets units*odds/100 (positive odds) or
\* units*100/|odds| (negative odds), a LOSS -units, a PUSH or VOID 0, for all
\* stored odds and units.
C12_NetUnitsFormula_AsClaimed ==
  NetReturned =>
    /\ (IsFinalWith("WIN") /\ PositiveOdds) => RatEq(net.value, UnderdogPayout)
    /\ (IsFinalWith("WIN") /\ NegativeOdds) => RatEq(net.value, FavouritePayout)
    /\ SettledOtherwise

\* C12 amended: a FINAL WIN nets units*odds/100 (positive odds) or
\* units*100/|odds| (negative odds) when units is positive and 0 when units
\* is zero or negative; a LOSS nets -units, a PUSH or VOID 0.
C12_NetUnitsFormula ==
  NetReturned =>
    /\ (IsFinalWith("WIN") /\ PositiveOdds /\ StoredUnits[1] > 0) =>
          RatEq(net.value, UnderdogPayout)
    /\ (IsFinalWith("WIN") /\ NegativeOdds /\ StoredUnits[1] > 0) =>
          RatEq(net.value, FavouritePayout)
    /\ (IsFinalWith("WIN") /\ StoredUnits[1] <= 0) => RatEq(net.value, <<0, 1>>)
    /\ SettledOtherwise

\* a win of half a unit at -110 was paid 5/11
C12_Witness ==
  /\ NetReturned
  /\ IsFinalWith("WIN")
  /\ net.bet.odds = Num(-110)
  /\ net.bet.units = <<1, 2>>
  /\ RatEq(net.value, <<5, 11>>)

(***************************************************************************)
(* Vocabulary of the scan properties, stated on the request, the log of    *)
(* provider calls and answers, and the response                            *)
(***************************************************************************)
ScanResponded == slipScan.pc = "responded"

\* the answer that has just arrived, and the provider it came from
LastAnswer == slipScan'.answers[Len(slipScan'.answers)]
Answered == Len(slipScan'.answers) = Len(slipScan.answers) + 1
AnsweredBy == slipScan.providers[slipScan.idx]

\* HTTP success with a message content that is empty
ContentEmpty(a) == a.ok /\ extractAssistantText(a) = <<>>

\* HTTP success with a message content that holds no JSON object
ContentNotJson(a) ==
  a.ok /\ extractAssistantText(a) # <<>> /\ safeJsonParse(extractAssistantText(a)) = JsonNull

\* HTTP success with a JSON object that has no bets array
ContentOffSchema(a) ==
  /\ a.ok /\ extractAssistantText(a) # <<>>
  /\ safeJsonParse(extractAssistantText(a)) # JsonNull
  /\ ~safeJsonParse(extractAssistantText(a)).hasBets

\* the texts of the extractions the iteration has taken as successful
TextEmptyOrNotJson(t) == t = <<>> \/ safeJsonParse(t) = JsonNull
TextOffSchema(t) == safeJsonParse(t) # JsonNull /\ ~safeJsonParse(t).hasBets

\* the provider of the first loop is treated as failed: one more failure,
\* nothing chosen, and the next provider in order is called, or the request
\* ends in the all-failed error after the last one
FailedThenNext ==
  /\ Len(slipScan'.failures) = Len(slipScan.failures) + 1
  /\ slipScan'.failures[Len(slipScan'.failures)].provider = AnsweredBy
  /\ ~slipScan'.chosen.ok
  /\ IF slipScan.idx < Len(slipScan.providers)
     THEN /\ slipScan'.pc = "extract"
          /\ slipScan'.called = Append(slipScan.called, slipScan.providers[slipScan.idx + 1])
     ELSE /\ slipScan'.pc = "responded"
          /\ slipScan'.response.status = 500
          /\ slipScan'.called = slipScan.called

\* the provider of the cross-check loop is passed over: it is not the
\* cross-check of the response, and the next provider other than the chosen
\* one is called if there is one
PassedOver ==
  /\ slipScan'.chosen = slipScan.chosen
  /\ IF \E j \in (slipScan.idx + 1)..Len(slipScan.providers) : j # slipScan.chosenIdx
     THEN /\ slipScan'.pc = "crosscheck"
          /\ Len(slipScan'.called) = Len(slipScan.called) + 1
          /\ slipScan'.idx > slipScan.idx
     ELSE /\ slipScan'.pc = "responded"
          /\ slipScan'.response.status = 200
          /\ slipScan'.response.provider = slipScan.chosen.provider
          /\ slipScan'.response.cross_check_provider = ""

TreatedAsFailed ==
  /\ slipScan.pc = "extract" => FailedThenNext
  /\ slipScan.pc = "crosscheck" => PassedOver

FetchIssued == Len(lg'.fetches) = Len(lg.fetches) + 1

\* the entry is absent or older than six hours
AbsentOrOld == ~lg.cache.present \/ lg.now - lg.cache.ts > IndexTtl

\* the requests whose fetch of the index is in flight
Fetching == {i \in DOMAIN lg.p : lg.p[i].pc = "fetching"}

\* any two fetches of the index lie more than six hours apart: each stale
\* period has one
OneFetchPerStalePeriod ==
  \A j, k \in DOMAIN lg.fetches : j < k => lg.fetches[k].at - lg.fetches[j].at > IndexTtl

\* C15: the index is fetched only when the cache entry is absent or older
\* than six hours, and one stale period causes exactly one fetch, also when
\* several requests see the same stale entry while a fetch is in flight.
C15_OneRefetchPerStalePeriod ==
  /\ [](OneFetchPerStalePeriod /\ Cardinality(Fetching) <= 1)
  /\ [][FetchIssued => AbsentOrOld]_vars

(***************************************************************************)
(* Vocabulary of the blocked-write properties                              *)
(***************************************************************************)
\* the page's last save() or addToLedger() met a missing required field or
\* a league that resolveLeagues could not resolve
BlockedByValidation(u) == u.op \in {"save", "addToLedger"} /\ (u.missing \/ u.unresolved)

\* C16: a manual save or a slip-scanner addToLedger blocked by data
\* validation (a missing required field, or an unresolvable league, in the
\* form or in any one review row) sends no statement, leaves every row of
\* the bets table as it was, and sets an error message.
C16_BlockedWriteWritesNothing ==
  /\ [](BlockedByValidation(ui) => ~ui.sent /\ ui.failed)
  /\ [][(~GradeStep /\ BlockedByValidation(ui')) => bets' = bets /\ nextId' = nextId]_vars

\* addToLedger ran with every field filled and a league unresolved, an
\* error is shown and the table is still empty
C16_Witness ==
  /\ ui.op = "addToLedger"
  /\ ui.unresolved /\ ~ui.missing
  /\ ui.failed
  /\ bets = {}

(***************************************************************************)
(* Vocabulary of the assistant claims                                      *)
(***************************************************************************)
AiResponded == ai.pc = "responded"

\* every call of the router the request made has returned a text
ProviderCallsSucceeded ==
  /\ AiResponded
  /\ ai.primaryRaw # NULL
  /\ ai.req.strategy # "fast" => ai.verifierRaw # NULL

\* a success whose answer comes from a provider, not from an export command
LlmAnswered == AiResponded /\ ai.response.status = 200 /\ ai.calls # <<>>

\* the JSON values the request read an answer from: the primary draft, the
\* alternate of a consensus, the verifier's fixed answer
DraftsRead ==
  (IF ai.primaryRaw # NULL THEN {safeJsonParseAnswer(ai.primaryRaw).doc} ELSE {})
  \cup (IF ai.altRaw # NULL THEN {safeJsonParseAnswer(ai.altRaw).doc} ELSE {})
  \cup (IF ai.verifierRaw # NULL THEN {safeJsonParseAnswer(ai.verifierRaw).fixed} ELSE {})

\* a JSON value that is a number, or a text that reads as one
IsNumeric(v) == v.t = "number" \/ (v.t = "string" /\ trim(v.s) # <<>> /\ isFinite(Number(v.s)))

\* the validation as the property words it: a non-empty answer, no id
\* outside the known set, every fact repeated with an equal number
NonEmptyAnswer(j) == j.answer_markdown.t = "string" /\ trim(j.answer_markdown.s) # <<>>
OnlyKnownIds(j, known) ==
  \A i \in DOMAIN used(j) : used(j)[i].s # <<>> => (used(j)[i].t = "string" /\ used(j)[i].s \in known)
RepeatsEveryFact(j, facts) ==
  /\ j.numbers_used.t = "object"
  /\ \A k \in DOMAIN facts :
       IsNumeric(j.numbers_used.val[k]) /\ sameNumber(numberOf(j.numbers_used.val[k]), facts[k])
PassesValidation(j) ==
  /\ j.t = "object"
  /\ NonEmptyAnswer(j)
  /\ OnlyKnownIds(j, betsById(ai))
  /\ RepeatsEveryFact(j, computeFacts(ai.bets))

\* C17: a success of the assistant endpoint with an answer derived from a
\* provider carries the answer of a JSON value (primary draft, consensus
\* alternate or verifier's fixed answer) that has a non-empty answer,
\* references only known bet ids and repeats every server-computed fact with
\* an equal number; and when the provider calls succeeded and no such value
\* was read, the response is 422 with the reason of the validation failure
C17_ValidatedAnswerOnly ==
  /\ LlmAnswered =>
       \E j \in DraftsRead : PassesValidation(j) /\ ai.response.answer_markdown = j.answer_markdown.s
  /\ (ProviderCallsSucceeded /\ \A j \in DraftsRead : ~PassesValidation(j)) =>
       (ai.response.status = 422 /\ ~ai.response.details.ok /\ ai.response.details.reason # "")

(***************************************************************************)
(* Vocabulary of the authorization claim                                   *)
(***************************************************************************)
\* the bearer token is missing, or the session it names is not valid
Unauthorized(req) == req.token # "valid"

\* a response that refuses the request: the authorization error, or the
\* error of a check the handler makes before it looks at the session
Refused(status) == status \in {400, 401, 500}

ScanKeptOut ==
  Unauthorized(slipScan.req) =>
    /\ slipScan.called = <<>> /\ slipScan.tableOps = <<>>
    /\ slipScan.pc = "responded" => Refused(slipScan.response.status)

GradeKeptOut ==
  Unauthorized(g.req) =>
    /\ g.pc # "grading" /\ g.openBets = <<>> /\ g.writes = <<>>
    /\ g.pc = "responded" => Refused(g.response.status)

AssistantKeptOut ==
  Unauthorized(ai.req) =>
    /\ ai.calls = <<>> /\ ai.reads = 0
    /\ ai.pc = "responded" => Refused(ai.response.status)

ResolveKeptOut ==
  \A i \in DOMAIN lg.p :
    Unauthorized(lg.p[i].req) =>
      /\ lg.p[i].reads = 0 /\ \A k \in DOMAIN lg.fetches : lg.fetches[k].by # i
      /\ lg.p[i].pc = "responded" => Refused(lg.p[i].response.status)

RegistryKeptOut ==
  \A i \in DOMAIN rg.p :
    Unauthorized(rg.p[i].req) =>
      /\ rg.p[i].fetched = <<>> /\ rg.p[i].reads = 0 /\ rg.p[i].writes = 0
      /\ rg.p[i].pc = "responded" => Refused(rg.p[i].response.status)

\* C18: on every route (slip scan, slip grade, assistant, league resolve,
\* league register, league list) a request without a bearer token or with an
\* invalid session is refused, and the handler has made no provider call, no
\* other outbound fetch and no read or write of a table for it
C18_AuthBeforeAnyEffect ==
  /\ ScanKeptOut
  /\ GradeKeptOut
  /\ AssistantKeptOut
  /\ ResolveKeptOut
  /\ RegistryKeptOut

(***************************************************************************)
(* Vocabulary of the review claim                                          *)
(***************************************************************************)
\* the rows of the table a step has added
Inserted == bets' \ bets

\* a stored row holds the date, the capper and the play of the row of the
\* review list, and is open
HoldsReviewRow(b, r) ==
  /\ b.date = r.date /\ b.capper = trim(r.capper) /\ b.play = trim(r.play)
  /\ b.status = "OPEN" /\ b.result = "OPEN"

\* the step is an addToLedger() that stored its review list, row by row
StoredTheReviewList ==
  /\ ui'.op = "addToLedger" /\ ui'.sent /\ ~ui'.failed
  /\ bets \subseteq bets'
  /\ Cardinality(Inserted) = Len(ui'.rows)
  /\ \A i \in DOMAIN ui'.rows :
       \E b \in Inserted : b.id = nextId + i - 1 /\ HoldsReviewRow(b, ui'.rows[i])

\* C19: extracted slip data reaches the ledger only when the user confirms
\* it: no step of the slip scan endpoint operates on a table or changes the
\* bets table, and whenever rows are added to it, addToLedger() adds one row
\* per row of the review list it was invoked with, holding what that row held
C19_LedgerOnlyByConfirmation ==
  /\ [](slipScan.tableOps = <<>>)
  /\ [][slipScan' # slipScan => (bets' = bets /\ nextId' = nextId)]_vars
  /\ [][bets' # bets => StoredTheReviewList]_vars

\* a scan has answered with rows and addToLedger() has stored a review list
\* of two rows
C19_Witness ==
  /\ slipScan.pc = "responded" /\ slipScan.response.status = 200
  /\ slipScan.response.extracted # <<>>
  /\ ui.op = "addToLedger" /\ ui.sent /\ ~ui.failed
  /\ Len(ui.rows) = 2 /\ Cardinality(bets) = 2

(***************************************************************************)
(* Vocabulary of the upload claim                                          *)
(***************************************************************************)
\* an uploaded file that is not of an image type, or is larger than the cap
BadUpload(file) ==
  file.isFile /\ (~startsWith(file.type, ImagePrefix) \/ file.size > MaxImageBytes)

ScanChecksUpload ==
  BadUpload(slipScan.req.file) =>
    /\ slipScan.called = <<>>
    /\ slipScan.pc = "responded" => slipScan.response.status \in {400, 401, 500}

\* the grading request never awaits the vision model, and is not served
GradeChecksUpload ==
  BadUpload(g.req.file) =>
    /\ g.pc \notin {"grading", "commit"}
    /\ g.pc = "responded" => g.response.status \in {400, 401, 500}

\* C20: slip scan and slip grade check the upload before they forward it: for
\* a file whose MIME type is not an image type, or whose size exceeds the
\* cap, no provider call is made and the request is answered with an error
C20_UploadCheckedFirst == ScanChecksUpload /\ GradeChecksUpload

(***************************************************************************)
(* The verifier's provider order                                           *)
(***************************************************************************)
ConfiguredByVerifierPriority == SelectSeq(VerifierPriority, HasConfig)

\* C21: runVerifier calls the configured providers one at a time in the order
\* mistral, groq, cerebras, hf; a provider is called only after all configured
\* ones before it failed, nothing is called after a success, the text
\* returned is the content of the call that succeeded, the call fails only
\* when every configured provider failed, and every call is sent with
\* temperature 0.
C21_VerifierInItsOrder ==
  rOp.name = "runVerifier" =>
    /\ IsPrefixOf(CalledNames, ConfiguredByVerifierPriority)
    /\ \A k \in DOMAIN rLog : k < Len(rLog) => Failed(k)
    /\ \A k \in DOMAIN rLog : rLog[k].temperature = 0
    /\ (rRet.kind = "text") <=> (rLog # <<>> /\ Succeeded(Len(rLog)))
    /\ rRet.kind = "text" => (RouterDone /\ rRet.text = rLog[Len(rLog)].out.value)
    /\ rRet.kind # "pair"
    /\ (rRet.kind = "throw") <=> (RouterDone /\ \A k \in DOMAIN rLog : Failed(k))
    /\ rRet.kind = "throw" =>
         /\ CalledNames = ConfiguredByVerifierPriority
         /\ TriedNames = ConfiguredByVerifierPriority

\* mistral failed, groq answered; cerebras and hf (configured) were not called
C21_Witness ==
  /\ rOp.name = "runVerifier"
  /\ RouterDone
  /\ Len(ConfiguredByVerifierPriority) = 4
  /\ CalledNames = <<"mistral", "groq">>
  /\ Failed(1) /\ Succeeded(2)
  /\ rLog[1].temperature = 0 /\ rLog[2].temperature = 0
  /\ rRet = ReturnText(Answer2)

(***************************************************************************)
(* Providers the environment leaves out                                    *)
(***************************************************************************)
\* the provider has no key in the environment (hf: no token or no model)
Keyless(name) ==
  CASE name = "groq" -> ~rEnv.GROQ_API_KEY
    [] name = "cerebras" -> ~rEnv.CEREBRAS_API_KEY
    [] name = "mistral" -> ~rEnv.MISTRAL_API_KEY
    [] name = "hf" -> ~rEnv.HF_TOKEN \/ ~rEnv.HF_MODEL

NamedInFailure(name) == \E k \in DOMAIN rRet.tried : rRet.tried[k].name = name

NoProvidersErrors == {NoTextProvidersMsg, NoConsensusProvidersMsg}

\* C22: in runPrimary, runVerifier and runConsensus a provider without a key
\* (hf: without token or model) is never called and has no entry in the
\* failure message; with no provider configured the call makes no provider
\* call and fails with a no-providers-configured error, which is not the
\* all-providers-failed error and is raised in no other case.
C22_UnconfiguredIsSkipped ==
  rPc # "idle" =>
    /\ \A name \in Providers :
         Keyless(name) => (Times(name) = 0 /\ ~NamedInFailure(name))
    /\ ConfiguredByPriority = <<>> =>
         /\ RouterDone
         /\ rLog = <<>>
         /\ rRet.kind = "throw"
         /\ rRet.error \in NoProvidersErrors
         /\ rRet.tried = <<>>
    /\ (rRet.kind = "throw" /\ ConfiguredByPriority # <<>>) =>
         /\ rRet.error = AllFailedMsg
         /\ rRet.tried # <<>>
    /\ AllFailedMsg \notin NoProvidersErrors

\* groq has no key and hf a token without a model: runConsensus asked
\* cerebras and mistral together, then both again, and its failure names
\* only these two
C22_Witness ==
  /\ rOp.name = "runConsensus"
  /\ RouterDone
  /\ Keyless("groq") /\ rEnv.HF_TOKEN /\ Keyless("hf")
  /\ CalledNames = <<"cerebras", "mistral", "cerebras", "mistral">>
  /\ rRet.kind = "throw"
  /\ rRet.error = AllFailedMsg
  /\ TriedNames = <<"cerebras", "mistral">>

(***************************************************************************)
(* Concurrency of the consensus path                                       *)
(***************************************************************************)
CallsInFlight == {k \in DOMAIN rLog : InFlight(k)}

\* C23: during one runConsensus call at most two provider calls are in
\* flight; calls in flight together are the two initial attempts; a later
\* attempt (second-answer search or fallback) is started only when every
\* earlier call of this runConsensus call has settled.
C23_AtMostTwoInFlight ==
  rOp.name = "runConsensus" =>
    /\ Cardinality(CallsInFlight) <= 2
    /\ Cardinality(CallsInFlight) = 2 => CallsInFlight = InitialCalls
    /\ \A k \in LaterCalls : \A j \in 1..(k - 1) : ~InFlight(j)

\* both initial attempts have settled, one with an answer, and the search
\* for a second answer has its one call in flight
C23_Witness ==
  /\ rOp.name = "runConsensus"
  /\ CalledNames = <<"groq", "cerebras", "mistral">>
  /\ Succeeded(1) /\ Failed(2) /\ InFlight(3)
  /\ CallsInFlight = {3}

(***************************************************************************)
(* New rows of the ledger                                                  *)
(***************************************************************************)
\* the rows of the table after the step whose id no row had before it
NewRows == {b \in bets' : \A a \in bets : a.id # b.id}

\* C24: every row inserted into the bets table, by save() for a new bet or
\* by addToLedger(), is inserted with status OPEN and result OPEN, whatever
\* status and result the form has selected.
C24_NewRowsAreOpen ==
  [][\A b \in NewRows : b.status = "OPEN" /\ b.result = "OPEN"]_vars

\* the form with FINAL, WIN and final score 1-0 selected was saved as a new
\* bet: the row holding that score is open
C24_Witness ==
  /\ ui.op = "save" /\ ui.sent /\ ~ui.failed
  /\ \E b \in bets :
       /\ b.final_score = Score10
       /\ b.status = "OPEN" /\ b.result = "OPEN"

(***************************************************************************)
(* Concurrent commits on one row                                           *)
(***************************************************************************)
\* the writes of the grading requests that changed a row: request and
\* position in its list of writes
AppliedWrites ==
  {w \in (DOMAIN gr) \X (1..MaxRows) :
     w[2] \in DOMAIN gr[w[1]].writes /\ gr[w[1]].writes[w[2]].outcome = "updated"}

AppliedTo(id) == {w \in AppliedWrites : gr[w[1]].writes[w[2]].bet_id = id}

\* the patches request i has for row id, from the row as it read it
patchesOf(i, id) ==
  {patchOf(findExisting(gr[i].openBets, id), gr[i].proposals[k]) :
     k \in {n \in DOMAIN gr[i].proposals : gr[i].proposals[n].bet_id = id}}

\* the row has the status, result, score and notes of the patch
HoldsPatch(b, patch) ==
  /\ b.status = patch.status /\ b.result = patch.result
  /\ b.final_score = patch.final_score /\ b.notes = patch.notes

\* no row that is not OPEN before the step is changed by it
SettledRowsKept == \A b \in bets : b.status # "OPEN" => b \in bets'

\* every row was written by at most one commit and holds what that commit
\* sent, whole
OneCommitPerRow ==
  \A b \in bets :
    /\ Cardinality(AppliedTo(b.id)) <= 1
    /\ AppliedTo(b.id) = {} => b.status = "OPEN"
    /\ \A w \in AppliedTo(b.id) : \E patch \in patchesOf(w[1], b.id) : HoldsPatch(b, patch)

\* C25: a slip-grade commit never changes a row that is not OPEN at the
\* moment of its write: when another request has graded the row since this
\* request read the open bets, this request's update changes nothing, so with
\* concurrent commits on one row the row ends with the status, result, score
\* and notes of exactly one of them.
C25_CommitOnlyOpenRows == []OneCommitPerRow /\ [][SettledRowsKept]_vars

\* two commits read row 1 open, one graded it WIN and the other LOSS; the
\* second to write changed nothing and the row holds the LOSS of the first
C25_Witness ==
  /\ gr[1].response.mode = "commit" /\ gr[2].response.mode = "commit"
  /\ gr[1].proposals[1].bet_id = 1 /\ gr[1].proposals[1].after.result = "WIN"
  /\ gr[2].proposals[1].bet_id = 1 /\ gr[2].proposals[1].after.result = "LOSS"
  /\ gr[1].writes = <<Written(1, "unmatched")>>
  /\ gr[2].writes = <<Written(1, "updated")>>
  /\ \E b \in bets : b.id = 1 /\ b.status = "FINAL" /\ b.result = "LOSS"

(***************************************************************************)
(* Proposals and rows of one grading request                               *)
(***************************************************************************)
NoRepeats(q) == \A j, k \in DOMAIN q : j # k => q[j] # q[k]

ProposedIds == [k \in DOMAIN g.proposals |-> g.proposals[k].bet_id]

\* the updates of the request that changed a row
RowsChanged == {k \in DOMAIN g.writes : g.writes[k].outcome = "updated"}

CommitAnswered == g.pc = "responded" /\ g.response.mode = "commit"

\* C26: in one grading request no two proposals refer to the same bet id,
\* on the ticket-level and on the per-leg path; the updated_bet_ids of a
\* commit has no duplicates and updated_count is the number of rows changed.
C26_OneProposalPerRow ==
  /\ NoRepeats(ProposedIds)
  /\ CommitAnswered =>
       /\ NoRepeats(g.response.updated_bet_ids)
       /\ Len(g.response.updated_bet_ids) = Cardinality(RowsChanged)

(***************************************************************************)
(* A commit that fails part-way                                            *)
(***************************************************************************)
\* the request ended on an update the database refused
CommitFailed ==
  /\ g.pc = "responded"
  /\ g.response.status = 500
  /\ \E k \in DOMAIN g.writes : g.writes[k].outcome = "error"

\* C27: a slip-grade commit is all-or-nothing: when the update of a
\* proposal's row fails, no row stays updated by this request, so a failed
\* commit never leaves a non-empty part of the proposals applied.
C27_CommitAllOrNothing == CommitFailed => RowsChanged = {}

(***************************************************************************)
(* The verifier pass after a valid draft                                   *)
(***************************************************************************)
\* the request has ended after its verifier pass had been started with a
\* draft (primary or consensus alternate) that passed validateAnswerJson
EndedAfterValidDraft ==
  /\ AiResponded
  /\ ai.req.strategy \in {"balanced", "consensus"}
  /\ ai.primaryValid.ok
  /\ \E k \in DOMAIN ai.calls : ai.calls[k] = "runVerifier"

\* the response is a success carrying the answer of a draft that passed
CarriesValidatedAnswer ==
  /\ ai.response.status = 200
  /\ \E j \in DraftsRead :
       validated(ai, j).ok /\ ai.response.answer_markdown = validated(ai, j).answer_markdown

\* C28: under the balanced or consensus strategy, when the primary answer or
\* the consensus alternate passes validation, the request ends with a success
\* carrying a validated answer whatever the verifier does: also when every
\* provider fails during the verifier call and when the verifier's output
\* cannot be parsed.
C28_ValidDraftSucceeds == EndedAfterValidDraft => CarriesValidatedAnswer

(***************************************************************************)
(* Aliases of a registered league                                          *)
(***************************************************************************)
\* the aliases the table holds for a sport and league
StoredAliases(table, sport_key, league_key) ==
  Range(existingAliases(table, sport_key, league_key))

\* the register calls that have answered with success
Registered ==
  {i \in DOMAIN rg.p :
     rg.p[i].op = "register" /\ rg.p[i].pc = "responded" /\ rg.p[i].response.status = 200}

\* every alias a successful call supplied is stored
SuppliedAliasesStored ==
  \A i \in Registered :
    Range(cleanAliases(rg.p[i].req.aliases))
      \subseteq StoredAliases(rg.table, trim(rg.p[i].req.sport_key), trim(rg.p[i].req.league_key))

\* no step takes an alias away from a row
AliasesKept ==
  \A r \in rg.table :
    Range(r.aliases) \subseteq StoredAliases(rg'.table, r.sport_key, r.league_key)

\* C29: league registration only adds aliases: after successful register
\* calls for one sport and league, in any interleaving, two calls running
\* concurrently included, the stored alias list holds every alias stored
\* before and every alias supplied by each call, without duplicates.
C29_AliasesOnlyGrow ==
  /\ [](SuppliedAliasesStored /\ \A r \in rg.table : NoRepeats(r.aliases))
  /\ [][AliasesKept]_vars

(***************************************************************************)
(* overlapScore on the texts of a matching call                            *)
(***************************************************************************)
\* the texts buildProposals hands to overlapScore: of each leg and of each
\* open row, the combined text, the opponent and the market
ComparedTexts ==
  UNION {{CombinedLeg(mIn.extracted.bets[k]), mIn.extracted.bets[k].opponent,
          mIn.extracted.bets[k].market} : k \in DOMAIN mIn.extracted.bets}
    \cup UNION {{CombinedRow(mIn.openBets[i]), mIn.openBets[i].opponent,
                 mIn.openBets[i].market} : i \in DOMAIN mIn.openBets}

\* a token of a normalized text: lower-case letters and digits, two or more
IsNormalToken(t) == Len(t) >= MinTokenLen /\ \A i \in DOMAIN t : IsAlnum(t[i])

\* the laws of one score s = overlapScore(a, b), with r = overlapScore(b, a)
\* and A, B the token sets of a and b
ScoreLaws(s, r, A, B) ==
  /\ s = r
  /\ s[2] > 0 /\ 0 <= s[1] /\ s[1] <= s[2]
  /\ (A = {} \/ B = {}) => RatEq(s, <<0, 1>>)
  /\ RatEq(s, <<1, 1>>) <=> (A # {} /\ A = B)

\* C30: overlapScore over the normalized token sets (lower-cased, punctuation
\* stripped, tokens of two or more characters) is symmetric in its two
\* arguments, lies in [0, 1], is 0 whenever either side has no token, and
\* is 1 exactly when both token sets are non-empty and equal.
C30_OverlapScoreLaws ==
  /\ \A a \in ComparedTexts : \A t \in tokenSet(a) : IsNormalToken(t)
  /\ \A a \in ComparedTexts : \A b \in ComparedTexts :
       ScoreLaws(overlapScore(a, b), overlapScore(b, a), tokenSet(a), tokenSet(b))

\* a call has compared two different texts with the same tokens, two texts
\* that share some tokens only, and a text without a token
C30_Witness ==
  /\ mPc = "built"
  /\ \E a \in ComparedTexts : \E b \in ComparedTexts :
       a # b /\ RatEq(overlapScore(a, b), <<1, 1>>)
  /\ \E a \in ComparedTexts : \E b \in ComparedTexts :
       /\ RatLess(<<0, 1>>, overlapScore(a, b))
       /\ RatLess(overlapScore(a, b), <<1, 1>>)
       /\ Cardinality(tokenSet(a)) # Cardinality(tokenSet(b))
  /\ \E a \in ComparedTexts : a # <<>> /\ tokenSet(a) = {}

====
